---- MODULE Spec2Model ----
(***************************************************************************)
(* Crowd-flow simulation kernel (SimEngine) with its A* planner.           *)
(*                                                                         *)
(* Units.  World coordinates are integers on a lattice of SCALE points per *)
(* metre (0.25 m), so a cell of the 1 m grids spans SCALE lattice points.  *)
(* Times are integers in units of the tick clamp (0.05 s).  A comparison   *)
(* of a distance with a decimal constant is made on squared integers.      *)
(*                                                                         *)
(* Motion.  The social-force sum of updateAgent (steering, agent, wall and *)
(* fire repulsion) is a function of floating-point data that the model     *)
(* does not keep (velocities).  A moving agent takes one lattice step per  *)
(* tick toward its current waypoint; the stuck detector (2.5 s at rest)    *)
(* does not fire within the horizon.  The clamp to the venue, the wall     *)
(* push-out and the exit check are then applied as the code applies them.  *)
(*                                                                         *)
(* Fire and smoke.  The spread accumulators are in 1/1000 and the smoke    *)
(* intensities in 1/1000000.  Firefighters arrive 30 s (600 ticks) after   *)
(* the fire is detected and move as the agents do, one lattice step per    *)
(* tick toward their waypoint.                                             *)
(***************************************************************************)
EXTENDS Integers, Sequences, FiniteSets, TLC

\* ------------------------------------------------------------------ bounds
MaxTime == 5       \* ticks of simulated time a run is followed for
MaxCalls == 2      \* host calls other than tick/start/pause that a run makes

\* --------------------------------------------------------- unit conversion
SCALE == 4         \* lattice points per metre; ASTAR_CELL (1 m) = SCALE points
COST_UNIT == 10000 \* fixed-point unit of the A* scores

NULL == "null"

Min(a, b) == IF a < b THEN a ELSE b
Max(a, b) == IF a > b THEN a ELSE b
Abs(a) == IF a < 0 THEN -a ELSE a
Sgn(a) == IF a < 0 THEN -1 ELSE IF a > 0 THEN 1 ELSE 0
CeilDiv(a, b) == (a + b - 1) \div b

clamp(v, lo, hi) == Max(lo, Min(hi, v))
dist2(ax, ay, bx, by) == (ax - bx) * (ax - bx) + (ay - by) * (ay - by)

Range(s) == {s[i] : i \in DOMAIN s}

RECURSIVE IsqrtBetween(_, _, _)
\* the k with lo <= k < hi and k*k <= n < (k+1)*(k+1), given lo*lo <= n < hi*hi
IsqrtBetween(n, lo, hi) ==
    IF hi - lo <= 1 THEN lo
    ELSE LET mid == (lo + hi) \div 2
         IN  IF mid * mid <= n THEN IsqrtBetween(n, mid, hi)
                               ELSE IsqrtBetween(n, lo, mid)

\* Math.sqrt of a squared cell distance, in COST_UNITs (rounded down)
SqrtCells == [d2 \in 0..20 |-> IsqrtBetween(d2 * COST_UNIT * COST_UNIT, 0, 46340)]

\* ------------------------------------------------------------ grid builder
\* passable[r][c], rows and columns numbered from 0
buildPassableGrid(venueW, venueH, walls, cellSize) ==
    LET cols == CeilDiv(venueW, cellSize)
        rows == CeilDiv(venueH, cellSize)
        c0(w) == Max(0, w.x \div cellSize)
        c1(w) == Min(cols - 1, (w.x + w.w) \div cellSize)
        r0(w) == Max(0, w.y \div cellSize)
        r1(w) == Min(rows - 1, (w.y + w.h) \div cellSize)
    IN  [r \in 0..(rows - 1) |-> [c \in 0..(cols - 1) |->
            ~ \E k \in DOMAIN walls :
                /\ r0(walls[k]) <= r /\ r <= r1(walls[k])
                /\ c0(walls[k]) <= c /\ c <= c1(walls[k])]]

GridRows(passable) == Cardinality(DOMAIN passable)
GridCols(passable) == IF GridRows(passable) = 0 THEN 0 ELSE Cardinality(DOMAIN passable[0])
\* passable[r]?.[c]
IsPassable(passable, r, c) ==
    /\ r \in DOMAIN passable
    /\ c \in DOMAIN passable[r]
    /\ passable[r][c]

\* --------------------------------------------------------------- A* planner
INF_SCORE == 2000000000
\* [dr, dc, cost]; the diagonal cost is the source's 1.414
dirs == << <<-1, 0, COST_UNIT>>, <<1, 0, COST_UNIT>>, <<0, -1, COST_UNIT>>, <<0, 1, COST_UNIT>>,
           <<-1, -1, 14140>>, <<-1, 1, 14140>>, <<1, -1, 14140>>, <<1, 1, 14140>> >>

Vec(x, y) == [x |-> x, y |-> y]

\* a pruning loop that stops without appending the final waypoint
RECURSIVE simplifyFromOpen(_, _, _)
simplifyFromOpen(path, i, result) ==
    IF i > Len(path) - 1 THEN result
    ELSE LET prev == result[Len(result)]
             curr == path[i]
             next == path[i + 1]
             cross == (curr.x - prev.x) * (next.y - prev.y)
                      - (curr.y - prev.y) * (next.x - prev.x)
         IN  simplifyFromOpen(path, i + 1,
                 IF 10 * Abs(cross) > SCALE * SCALE THEN Append(result, curr) ELSE result)

\* Remove collinear intermediate waypoints; |cross| > 0.1 m^2 on lattice units
RECURSIVE simplifyFrom(_, _, _)
simplifyFrom(path, i, result) ==
    IF i > Len(path) - 1 THEN Append(result, path[Len(path)])
    ELSE LET prev == result[Len(result)]
             curr == path[i]
             next == path[i + 1]
             cross == (curr.x - prev.x) * (next.y - prev.y)
                      - (curr.y - prev.y) * (next.x - prev.x)
         IN  simplifyFrom(path, i + 1,
                 IF 10 * Abs(cross) > SCALE * SCALE THEN Append(result, curr) ELSE result)

simplifyPath(path) ==
    IF Len(path) <= 2 THEN path ELSE simplifyFrom(path, 2, <<path[1]>>)

\* position in `open` of the first entry whose fScore is below every earlier one
RECURSIVE minScan(_, _, _, _, _)
minScan(open, fScore, i, minF, minPos) ==
    IF i > Len(open) THEN minPos
    ELSE IF fScore[open[i]] < minF
         THEN minScan(open, fScore, i + 1, fScore[open[i]], i)
         ELSE minScan(open, fScore, i + 1, minF, minPos)

RemoveAt(s, k) == [j \in 1..(Len(s) - 1) |-> IF j < k THEN s[j] ELSE s[j + 1]]

\* the loop over dirs that takes wall cells for neighbours as well
RECURSIVE relaxThroughWalls(_, _, _, _, _, _, _)
relaxThroughWalls(passable, cols, gr, gc, minI, k, st) ==
    IF k > Len(dirs) THEN st
    ELSE LET nr == (minI \div cols) + dirs[k][1]
             nc == (minI % cols) + dirs[k][2]
             ni == nr * cols + nc
             tentG == st.g[minI] + dirs[k][3]
         IN  IF nr < 0 \/ nr >= GridRows(passable) \/ nc < 0 \/ nc >= cols
                THEN relaxThroughWalls(passable, cols, gr, gc, minI, k + 1, st)
             ELSE IF tentG < st.g[ni]
                THEN relaxThroughWalls(passable, cols, gr, gc, minI, k + 1,
                        [open   |-> IF ni \in st.inOpen THEN st.open ELSE Append(st.open, ni),
                         g      |-> [st.g EXCEPT ![ni] = tentG],
                         f      |-> [st.f EXCEPT ![ni] =
                                        tentG + SqrtCells[(nr - gr) * (nr - gr) + (nc - gc) * (nc - gc)]],
                         came   |-> [st.came EXCEPT ![ni] = minI],
                         inOpen |-> st.inOpen \cup {ni}])
             ELSE relaxThroughWalls(passable, cols, gr, gc, minI, k + 1, st)

\* the loop over dirs for the node minI, st = [open, g, f, came, inOpen]
RECURSIVE relax(_, _, _, _, _, _, _)
relax(passable, cols, gr, gc, minI, k, st) ==
    IF k > Len(dirs) THEN st
    ELSE LET nr == (minI \div cols) + dirs[k][1]
             nc == (minI % cols) + dirs[k][2]
             ni == nr * cols + nc
             tentG == st.g[minI] + dirs[k][3]
         IN  IF nr < 0 \/ nr >= GridRows(passable) \/ nc < 0 \/ nc >= cols
                THEN relax(passable, cols, gr, gc, minI, k + 1, st)
             ELSE IF ~ passable[nr][nc]
                THEN relax(passable, cols, gr, gc, minI, k + 1, st)
             ELSE IF tentG < st.g[ni]
                THEN relax(passable, cols, gr, gc, minI, k + 1,
                        [open   |-> IF ni \in st.inOpen THEN st.open ELSE Append(st.open, ni),
                         g      |-> [st.g EXCEPT ![ni] = tentG],
                         f      |-> [st.f EXCEPT ![ni] =
                                        tentG + SqrtCells[(nr - gr) * (nr - gr) + (nc - gc) * (nc - gc)]],
                         came   |-> [st.came EXCEPT ![ni] = minI],
                         inOpen |-> st.inOpen \cup {ni}])
             ELSE relax(passable, cols, gr, gc, minI, k + 1, st)

\* the while loop; returns [found, came]
RECURSIVE search(_, _, _, _, _, _)
search(passable, cols, gr, gc, gi, st) ==
    IF Len(st.open) = 0 THEN [found |-> FALSE, came |-> st.came]
    ELSE LET minPos == minScan(st.open, st.f, 1, INF_SCORE, 1)
             minI == IF st.f[st.open[minPos]] < INF_SCORE THEN st.open[minPos] ELSE 0
             popped == [st EXCEPT !.open = RemoveAt(st.open, minPos)]
         IN  IF minI = gi THEN [found |-> TRUE, came |-> st.came]
             ELSE search(passable, cols, gr, gc, gi,
                         relax(passable, cols, gr, gc, minI, 1, popped))

RECURSIVE reconstruct(_, _, _, _, _, _)
reconstruct(came, cols, cellSize, cur, si, acc) ==
    IF cur = si THEN acc
    ELSE reconstruct(came, cols, cellSize, came[cur], si,
            <<Vec((cur % cols) * cellSize + cellSize \div 2,
                  (cur \div cols) * cellSize + cellSize \div 2)>> \o acc)

\* goal repair: the scan over the 7x7 window stops at the first passable cell
repairGoal(passable, gr, gc) ==
    IF IsPassable(passable, gr, gc) THEN <<gr, gc>>
    ELSE LET hits == {d \in (-3..3) \X (-3..3) : IsPassable(passable, gr + d[1], gc + d[2])}
         IN  IF hits = {} THEN <<gr, gc>>
             ELSE LET first == CHOOSE d \in hits : \A e \in hits :
                                   d[1] < e[1] \/ (d[1] = e[1] /\ d[2] <= e[2])
                  IN  <<gr + first[1], gc + first[2]>>

astar(passable, startWorld, goalWorld, cellSize) ==
    LET rows == GridRows(passable)
        cols == GridCols(passable)
        sr == Max(0, Min(rows - 1, startWorld.y \div cellSize))
        sc == Max(0, Min(cols - 1, startWorld.x \div cellSize))
        ggr == Max(0, Min(rows - 1, goalWorld.y \div cellSize))
        ggc == Max(0, Min(cols - 1, goalWorld.x \div cellSize))
    IN  IF rows = 0 THEN <<goalWorld>>
        ELSE IF ~ IsPassable(passable, sr, sc) THEN <<goalWorld>>
        ELSE LET g == repairGoal(passable, ggr, ggc)
                 gr == g[1]
                 gc == g[2]
                 si == sr * cols + sc
                 gi == gr * cols + gc
                 n == rows * cols
                 st0 == [open   |-> <<si>>,
                         g      |-> [i \in 0..(n - 1) |-> IF i = si THEN 0 ELSE INF_SCORE],
                         f      |-> [i \in 0..(n - 1) |-> IF i = si
                                        THEN SqrtCells[(sr - gr) * (sr - gr) + (sc - gc) * (sc - gc)]
                                        ELSE INF_SCORE],
                         came   |-> [i \in 0..(n - 1) |-> -1],
                         inOpen |-> {si}]
                 res == search(passable, cols, gr, gc, gi, st0)
             IN  IF sr = gr /\ sc = gc THEN <<goalWorld>>
                 ELSE IF ~ res.found THEN <<goalWorld>>
                 ELSE simplifyPath(Append(
                         reconstruct(res.came, cols, cellSize, gi, si, <<>>), goalWorld))

\* ------------------------------------------------------------------ inputs
\* Venue layouts (lattice units).  Weights are integers; a draw r of the weighted
\* choice stands for the real number r + 1/2, a point inside one attractor's share.
VENUE_A ==
    [width |-> 12, height |-> 8,
     walls |-> << [x |-> 8, y |-> 0, w |-> 3, h |-> 3] >>,
     entrances |-> << [x |-> 2, y |-> 2, width |-> 2] >>,
     exits |-> << [id |-> "ex1", x |-> 6, y |-> 6, width |-> 2],
                  [id |-> "ex2", x |-> 10, y |-> 6, width |-> 2] >>,
     attractors |-> << [id |-> "att1", x |-> 2, y |-> 3, weight |-> 1, serviceTime |-> 1,
                        queueEnabled |-> TRUE, queueCapacity |-> 2],
                       [id |-> "att2", x |-> 2, y |-> 6, weight |-> 1, serviceTime |-> 2,
                        queueEnabled |-> TRUE, queueCapacity |-> 2] >>]

\* a door used both as entrance and as exit, 0.25 m from the venue edge,
\* and a wall that leaves a 0.25 m gap to the edge
VENUE_B ==
    [width |-> 8, height |-> 8,
     walls |-> << [x |-> 5, y |-> 1, w |-> 2, h |-> 2] >>,
     entrances |-> << [x |-> 2, y |-> 1, width |-> 2] >>,
     exits |-> << [id |-> "ex1", x |-> 2, y |-> 1, width |-> 2] >>,
     attractors |-> << >>]

\* an open hall: the entrance in one corner cell, two exits in other cells
VENUE_C ==
    [width |-> 8, height |-> 8,
     walls |-> << >>,
     entrances |-> << [x |-> 1, y |-> 2, width |-> 2] >>,
     exits |-> << [id |-> "ex1", x |-> 6, y |-> 2, width |-> 2],
                  [id |-> "ex2", x |-> 6, y |-> 6, width |-> 2] >>,
     attractors |-> << >>]

Layouts == {VENUE_A, VENUE_B}

\* Simulation configs.  arrivalDuration and evacuationTime are in ticks, cellSize
\* (the density grid's cell) in lattice units, the density thresholds in
\* persons per square metre.
CFG_QUEUE ==
    [N |-> 2, arrivalMode |-> "burst", arrivalDuration |-> 2, speedMean |-> 1,
     queueEnabled |-> TRUE, evacuationEnabled |-> FALSE, evacuationTime |-> 3,
     panicSpeedMultiplier |-> 2,
     cellSize |-> 4, densityWarning |-> 1, densityDanger |-> 2]
CFG_EVAC ==
    [N |-> 2, arrivalMode |-> "linear", arrivalDuration |-> 2, speedMean |-> 1,
     queueEnabled |-> FALSE, evacuationEnabled |-> TRUE, evacuationTime |-> 3,
     panicSpeedMultiplier |-> 2,
     cellSize |-> 4, densityWarning |-> 0, densityDanger |-> 1]

Configs == {CFG_QUEUE, CFG_EVAC}

\* tick(dt): dt in ticks; 2 is a host stall, clamped
DtInputs == {1, 2}
\* startFire(wx, wy): a passable cell, a wall cell, a point outside the venue
FirePoints == {Vec(1, 5), Vec(9, 1), Vec(-1, 2)}

MoveKinds == {"toward"}

\* ------------------------------------------------------------------- state
VARIABLES
    layout, cfg,            \* this.layout, this.cfg
    agents,                 \* this.agents, in spawn order (agentMap is its index by id)
    simTime, isRunning, isEvacuating,
    passable,               \* this.passable
    hash,                   \* the ids held by the spatial hash
    peakDensity, timeAboveWarning, timeAboveDanger,
    egressTimes,
    queues, queueServiced,  \* attractor id -> ids queued / number being served
    fireGrid,               \* the set of burning cells <<r, c>>
    fireSpread,             \* per-cell spread accumulator, in 1/1000
    smokeGrid,              \* per-cell smoke intensity, in 1/SMOKE_ONE
    fireCellCount, hasSmoke, fireStartTime,
    blockedExits,
    spawnedCount, totalToSpawn,
    nextId,                 \* the module-level _nextId
    lastOp,                 \* the last call made on the kernel, with its arguments
    calls,                  \* number of host calls counted against MaxCalls
    sweep,                  \* the sweep driver: where runSweep stands and what it holds
    held,                   \* the frame the host holds from its last getFrame(), if any
    firefighters,           \* this.firefighters, in spawn order
    firefightersSpawned,
    ffNextId                \* the module-level _ffNextId

metricVars == << peakDensity, timeAboveWarning, timeAboveDanger >>
smokeVars == << smokeGrid, hasSmoke >>
ffVars == << firefighters, firefightersSpawned, ffNextId >>

vars == << layout, cfg, agents, simTime, isRunning, isEvacuating, passable, hash, metricVars,
           egressTimes, queues, queueServiced, fireGrid, fireSpread, smokeVars,
           fireCellCount, fireStartTime, blockedExits, spawnedCount, totalToSpawn, nextId,
           lastOp, calls, sweep, held, ffVars >>

ExitStates == {"seeking_exit", "evacuating"}

fireRows == GridRows(passable)
fireCols == GridCols(passable)
Cells == {rc \in (0..(fireRows - 1)) \X (0..(fireCols - 1)) : TRUE}

\* The fields a call can change, gathered so that the private methods can be
\* written as functions from kernel to kernel.
Self ==
    [agents |-> agents, isEvacuating |-> isEvacuating, egressTimes |-> egressTimes,
     queues |-> queues, queueServiced |-> queueServiced, blockedExits |-> blockedExits,
     spawnedCount |-> spawnedCount, nextId |-> nextId]

Commit(k) ==
    \E done \in {k} :
        /\ agents' = done.agents
        /\ isEvacuating' = done.isEvacuating
        /\ egressTimes' = done.egressTimes
        /\ queues' = done.queues
        /\ queueServiced' = done.queueServiced
        /\ blockedExits' = done.blockedExits
        /\ spawnedCount' = done.spawnedCount
        /\ nextId' = done.nextId

\* ------------------------------------------------------------ path planning
\* nearestExitPos: sets agent.targetExitId and returns the goal
nearestExit(k, agent) ==
    LET exits == layout.exits
        candidates == SelectSeq(exits, LAMBDA ex : ex.id \notin k.blockedExits)
        pool == IF Len(candidates) > 0 THEN candidates ELSE exits
        d(j) == dist2(agent.x, agent.y, pool[j].x, pool[j].y)
        \* the first exit of the pool at minimum distance (strict < keeps the earlier)
        best == CHOOSE j \in 1..Len(pool) :
                    /\ \A i \in 1..Len(pool) : d(j) <= d(i)
                    /\ \A i \in 1..(j - 1) : d(i) > d(j)
    IN  pool[best]

nearestExitPos(k, agent) ==
    IF Len(layout.exits) = 0
    THEN [agent |-> agent, goal |-> Vec(layout.width \div 2, layout.height \div 2)]
    ELSE LET best == nearestExit(k, agent)
         IN  [agent |-> [agent EXCEPT !.targetExitId = best.id],
              goal  |-> Vec(best.x, best.y)]

FindAttractor(id) ==
    {j \in 1..Len(layout.attractors) : layout.attractors[j].id = id}

computePath(k, agent) ==
    LET atts == FindAttractor(agent.targetAttractorId)
        toAtt == agent.state = "seeking_attractor" /\ agent.targetAttractorId # NULL
                 /\ atts # {}
        att == layout.attractors[CHOOSE j \in atts : \A i \in atts : j <= i]
        ne == nearestExitPos(k, agent)
        a1 == IF toAtt THEN agent ELSE ne.agent
        goal == IF toAtt THEN Vec(att.x, att.y) ELSE ne.goal
    IN  [a1 EXCEPT !.path = astar(passable, Vec(agent.x, agent.y), goal, SCALE),
                   !.pathIndex = 0]

\* ------------------------------------------------------------------ queues
QueueOf(k, id) == IF id \in DOMAIN k.queues THEN k.queues[id] ELSE << >>
ServedOf(k, id, dflt) == IF id \in DOMAIN k.queueServiced THEN k.queueServiced[id] ELSE dflt
MapSet(f, key, val) == [x \in DOMAIN f \cup {key} |-> IF x = key THEN val ELSE f[x]]
IndexOf(q, id) == IF \E j \in DOMAIN q : q[j] = id
                  THEN CHOOSE j \in DOMAIN q : q[j] = id /\ \A i \in 1..(j - 1) : q[i] # id
                  ELSE 0
\* remove the first occurrence of id from every queue
RemoveFromQueues(qs, id) ==
    [a \in DOMAIN qs |-> IF IndexOf(qs[a], id) > 0 THEN RemoveAt(qs[a], IndexOf(qs[a], id))
                         ELSE qs[a]]

\* the queues and counters rebuild() leaves
rebuildQueues(lay) ==
    [queues |-> [id \in {lay.attractors[j].id : j \in DOMAIN lay.attractors} |-> << >>],
     queueServiced |-> [id \in {lay.attractors[j].id : j \in DOMAIN lay.attractors} |-> 0]]

\* ---------------------------------------------------------------- spawning
RECURSIVE SumWeights(_, _)
SumWeights(atts, j) == IF j > Len(atts) THEN 0 ELSE atts[j].weight + SumWeights(atts, j + 1)

\* r <= acc for the draw r, which stands for the real number r + 1/2
DrawAtMost(r, acc) == 2 * r + 1 <= 2 * acc

RECURSIVE pickFrom(_, _, _, _)
pickFrom(k, r, j, acc) ==
    IF j > Len(layout.attractors) THEN NULL
    ELSE LET att == layout.attractors[j]
             acc1 == acc + att.weight
         IN  IF DrawAtMost(r, acc1)
             THEN IF cfg.queueEnabled /\ att.queueEnabled
                     /\ Len(QueueOf(k, att.id)) + ServedOf(k, att.id, 0) >= att.queueCapacity
                  THEN pickFrom(k, r, j + 1, acc1)     \* full, skip
                  ELSE att.id
             ELSE pickFrom(k, r, j + 1, acc1)

\* r: the draw Math.random() * totalWeight
pickAttractor(k, r) ==
    IF Len(layout.attractors) = 0 THEN NULL
    ELSE IF k.isEvacuating THEN NULL
    ELSE IF SumWeights(layout.attractors, 1) = 0 THEN NULL
    ELSE pickFrom(k, r, 1, 0)

\* the random draws of one spawn: entrance, jitter along and across the strip,
\* attractor draw; the radius drawn is always 0.25 m (1 lattice unit)
SpawnDraws ==
    {d \in [entrance : 1..Len(layout.entrances), jx : -2..2, jy : {-1, 0},
            r : 0..Max(0, SumWeights(layout.attractors, 1) - 1)] :
        LET w == layout.entrances[d.entrance].width
        IN  10 * d.jx >= -4 * w /\ 10 * d.jx < 4 * w}

spawnOneAgent(k, d) ==
    LET entrance == layout.entrances[d.entrance]
        targetAttractorId == pickAttractor(k, d.r)
        agent == [id |-> k.nextId,
                  x |-> entrance.x + d.jx, y |-> entrance.y + d.jy,
                  radius |-> 1,
                  speed |-> cfg.speedMean,
                  state |-> IF targetAttractorId # NULL THEN "seeking_attractor"
                            ELSE "seeking_exit",
                  targetAttractorId |-> targetAttractorId,
                  targetExitId |-> NULL,
                  path |-> << >>, pathIndex |-> 0,
                  spawnTime |-> simTime, exitTime |-> -1, atAttractorUntil |-> -1]
    IN  [k EXCEPT !.agents = Append(@, computePath(k, agent)),
                  !.nextId = @ + 1,
                  !.spawnedCount = @ + 1]

\* a variant that asks for the whole crowd whatever the arrival mode
targetCountEager == cfg.N

\* floor(targetFraction * N)
targetCount ==
    IF cfg.arrivalMode = "burst" THEN cfg.N
    ELSE IF simTime >= cfg.arrivalDuration THEN cfg.N
    ELSE (simTime * cfg.N) \div cfg.arrivalDuration

\* how many agents spawnAgents creates in this tick
toSpawnNow(k) ==
    IF k.spawnedCount >= cfg.N \/ Len(layout.entrances) = 0 THEN 0
    ELSE Min(Max(0, targetCount - k.spawnedCount), cfg.N - k.spawnedCount)

RECURSIVE spawnLoop(_, _, _)
spawnLoop(k, draws, j) ==
    IF j > Len(draws) THEN k ELSE spawnLoop(spawnOneAgent(k, draws[j]), draws, j + 1)

spawnAgents(k, draws) == spawnLoop(k, draws, 1)

\* -------------------------------------------------------------- evacuation
RECURSIVE evacuateFrom(_, _)
evacuateFrom(k, i) ==
    IF i > Len(k.agents) THEN k
    ELSE LET a == k.agents[i]
         IN  IF a.state = "exited" THEN evacuateFrom(k, i + 1)
             ELSE IF a.state \in {"at_attractor", "seeking_attractor", "queuing"}
             THEN LET k1 == [k EXCEPT !.queues = RemoveFromQueues(@, a.id)]
                      a1 == computePath(k1, [a EXCEPT !.state = "evacuating",
                                                      !.targetAttractorId = NULL])
                      a2 == [a1 EXCEPT !.speed = @ * cfg.panicSpeedMultiplier]
                  IN  evacuateFrom([k1 EXCEPT !.agents[i] = a2], i + 1)
             ELSE evacuateFrom(
                     [k EXCEPT !.agents[i].speed = @ * cfg.panicSpeedMultiplier], i + 1)

triggerEvacuation(k) == evacuateFrom([k EXCEPT !.isEvacuating = TRUE], 1)

\* ------------------------------------------------------------ agent update
\* distance < 0.6 m (waypoint reached): 100 * D^2 < (6 * SCALE)^2 in tenths
WithinReach(ax, ay, wp) == 100 * dist2(ax, ay, wp.x, wp.y) < (6 * SCALE) * (6 * SCALE)

\* d < exit.width / 2 + agent.radius + 0.3, all lengths times ten
absorbDistance10(exit, agent) == 5 * exit.width + 10 * agent.radius + 3 * SCALE
WithinAbsorb(agent, exit) ==
    100 * dist2(agent.x, agent.y, exit.x, exit.y)
        < absorbDistance10(exit, agent) * absorbDistance10(exit, agent)

RECURSIVE pushOut(_, _)
pushOut(agent, j) ==
    IF j > Len(layout.walls) THEN agent
    ELSE LET r == layout.walls[j]
             overlapL == (agent.x + agent.radius) - r.x
             overlapR == (r.x + r.w) - (agent.x - agent.radius)
             overlapT == (agent.y + agent.radius) - r.y
             overlapB == (r.y + r.h) - (agent.y - agent.radius)
             minOv == Min(Min(overlapL, overlapR), Min(overlapT, overlapB))
         IN  IF agent.x + agent.radius > r.x /\ agent.x - agent.radius < r.x + r.w
                /\ agent.y + agent.radius > r.y /\ agent.y - agent.radius < r.y + r.h
             THEN pushOut(
                    IF minOv = overlapL THEN [agent EXCEPT !.x = @ - overlapL]
                    ELSE IF minOv = overlapR THEN [agent EXCEPT !.x = @ + overlapR]
                    ELSE IF minOv = overlapT THEN [agent EXCEPT !.y = @ - overlapT]
                    ELSE [agent EXCEPT !.y = @ + overlapB], j + 1)
             ELSE pushOut(agent, j + 1)

resolveWallCollisions(agent) == pushOut(agent, 1)

\* the exits that absorb the agent when the sealed ones are not skipped
absorbingExitsSealedToo(k, agent) ==
    {j \in 1..Len(layout.exits) : WithinAbsorb(agent, layout.exits[j])}

\* the open exits, in layout order, that absorb the agent where it stands
absorbingExits(k, agent) ==
    {j \in 1..Len(layout.exits) :
        layout.exits[j].id \notin k.blockedExits /\ WithinAbsorb(agent, layout.exits[j])}

\* checkExitArrival that marks the agent exited without logging its egress time
checkExitArrivalUnlogged(k, i) ==
    LET agent == k.agents[i]
    IN  IF agent.state \notin ExitStates THEN k
        ELSE IF {j \in 1..Len(layout.exits) :
                    layout.exits[j].id \notin k.blockedExits
                    /\ WithinAbsorb(agent, layout.exits[j])} = {} THEN k
        ELSE [k EXCEPT !.agents[i] = [agent EXCEPT !.state = "exited", !.exitTime = simTime]]

checkExitArrival(k, i) ==
    LET agent == k.agents[i]
    IN  IF agent.state \notin ExitStates THEN k
        ELSE IF absorbingExits(k, agent) = {} THEN k
        ELSE [k EXCEPT !.agents[i] = [agent EXCEPT !.state = "exited", !.exitTime = simTime],
                       !.egressTimes = Append(@, simTime - agent.spawnTime)]

onAgentReachedTarget(k, i) ==
    LET agent == k.agents[i]
        atts == FindAttractor(agent.targetAttractorId)
    IN  IF agent.state = "seeking_attractor" /\ agent.targetAttractorId # NULL
        THEN IF atts = {}
             THEN [k EXCEPT !.agents[i] = computePath(k, [agent EXCEPT !.state = "seeking_exit"])]
             ELSE LET att == layout.attractors[CHOOSE j \in atts : \A m \in atts : j <= m]
                      q == QueueOf(k, att.id)
                  IN  IF cfg.queueEnabled /\ att.queueEnabled
                      THEN [k EXCEPT !.queues = MapSet(@, att.id,
                                        IF IndexOf(q, agent.id) = 0 THEN Append(q, agent.id) ELSE q),
                                     !.agents[i].state = "queuing"]
                      ELSE [k EXCEPT !.agents[i] =
                                        [agent EXCEPT !.state = "at_attractor",
                                                      !.atAttractorUntil = simTime + att.serviceTime],
                                     !.queueServiced = MapSet(@, att.id, ServedOf(k, att.id, 0) + 1)]
        ELSE [k EXCEPT !.agents[i] = computePath(k, [agent EXCEPT !.state = "seeking_exit"])]

\* the step the steering takes toward the waypoint
Toward(agent, wp) == Vec(Sgn(wp.x - agent.x), Sgn(wp.y - agent.y))

\* integrate, clamp to the venue, push out of walls, stuck re-plan, exit check
moveAgent(k, i, wp, move) ==
    LET agent == k.agents[i]
        step == IF move = "toward" THEN Toward(agent, wp) ELSE Vec(0, 0)
        a1 == [agent EXCEPT
                 !.x = clamp(agent.x + step.x, agent.radius, layout.width - agent.radius),
                 !.y = clamp(agent.y + step.y, agent.radius, layout.height - agent.radius)]
        a2 == resolveWallCollisions(a1)
        a3 == IF move = "replan" THEN computePath(k, a2) ELSE a2
    IN  checkExitArrival([k EXCEPT !.agents[i] = a3], i)

updateAgent(k, i, move) ==
    LET agent == k.agents[i]
    IN  IF agent.state = "at_attractor"
        THEN IF simTime >= agent.atAttractorUntil
             THEN LET aId == agent.targetAttractorId
                      k1 == IF aId # NULL
                            THEN [k EXCEPT !.queueServiced =
                                     MapSet(@, aId, Max(0, ServedOf(k, aId, 1) - 1))]
                            ELSE k
                  IN  [k1 EXCEPT !.agents[i] =
                          computePath(k1, [agent EXCEPT !.state = "seeking_exit",
                                                        !.targetAttractorId = NULL])]
             ELSE k
        ELSE IF agent.state = "queuing" THEN k
        ELSE IF agent.pathIndex >= Len(agent.path)
             THEN \* no waypoint - try to exit
                  [k EXCEPT !.agents[i] =
                      computePath(k, [agent EXCEPT !.state =
                          IF k.isEvacuating THEN "evacuating" ELSE "seeking_exit"])]
        ELSE LET wp == agent.path[agent.pathIndex + 1]
             IN  IF WithinReach(agent.x, agent.y, wp)
                 THEN IF agent.pathIndex + 1 >= Len(agent.path)
                      THEN onAgentReachedTarget([k EXCEPT !.agents[i].pathIndex = @ + 1], i)
                      ELSE moveAgent([k EXCEPT !.agents[i].pathIndex = @ + 1], i, wp, move)
                 ELSE moveAgent(k, i, wp, move)

RECURSIVE updateAgents(_, _, _)
updateAgents(k, moves, i) ==
    IF i > Len(k.agents) THEN k
    ELSE IF k.agents[i].state = "exited" THEN updateAgents(k, moves, i + 1)
    ELSE updateAgents(updateAgent(k, i, moves[i]), moves, i + 1)

\* index in this.agents that agentMap resolves an id to (the last agent set under it)
agentById(k, id) ==
    IF \E j \in DOMAIN k.agents : k.agents[j].id = id
    THEN CHOOSE j \in DOMAIN k.agents :
            k.agents[j].id = id /\ \A m \in DOMAIN k.agents : k.agents[m].id = id => m <= j
    ELSE 0

RECURSIVE processQueuesFrom(_, _)
processQueuesFrom(k, j) ==
    IF j > Len(layout.attractors) THEN k
    ELSE LET att == layout.attractors[j]
             q == QueueOf(k, att.id)
             served == ServedOf(k, att.id, 0)
         IN  IF ~ att.queueEnabled \/ ~ cfg.queueEnabled THEN processQueuesFrom(k, j + 1)
             ELSE IF att.id \notin DOMAIN k.queues \/ Len(q) = 0 THEN processQueuesFrom(k, j + 1)
             ELSE IF served < 1
             THEN LET nextAgent == agentById(k, Head(q))
                      k1 == [k EXCEPT !.queues[att.id] = Tail(q)]
                  IN  processQueuesFrom(
                        IF nextAgent # 0
                        THEN [k1 EXCEPT !.agents[nextAgent].state = "at_attractor",
                                        !.agents[nextAgent].atAttractorUntil =
                                            simTime + att.serviceTime,
                                        !.queueServiced = MapSet(@, att.id, served + 1)]
                        ELSE k1, j + 1)
             ELSE processQueuesFrom(k, j + 1)

processQueues(k) == processQueuesFrom(k, 1)

\* --------------------------------------------------------------------- fire
FIRE_SPREAD_RATE == 9      \* 0.18 per second = 9/1000 per tick
FourDirs == << <<-1, 0>>, <<1, 0>>, <<0, -1>>, <<0, 1>> >>

\* spreadFire whose ignitions take effect inside the scan instead of after it
RECURSIVE spreadFromAtOnce(_, _, _, _, _)
spreadFromAtOnce(f, dt, r, c, d) ==
    IF r >= fireRows THEN f
    ELSE IF c >= fireCols THEN spreadFromAtOnce(f, dt, r + 1, 0, 1)
    ELSE IF <<r, c>> \notin f.grid \/ d > Len(FourDirs) THEN spreadFromAtOnce(f, dt, r, c + 1, 1)
    ELSE LET nr == r + FourDirs[d][1]
             nc == c + FourDirs[d][2]
         IN  IF nr < 0 \/ nr >= fireRows \/ nc < 0 \/ nc >= fireCols
                THEN spreadFromAtOnce(f, dt, r, c, d + 1)
             ELSE IF <<nr, nc>> \in f.grid \/ ~ passable[nr][nc]
                THEN spreadFromAtOnce(f, dt, r, c, d + 1)
             ELSE LET acc == f.spread[<<nr, nc>>] + dt * FIRE_SPREAD_RATE
                  IN  spreadFromAtOnce(
                        IF acc >= 1000
                        THEN [f EXCEPT !.spread[<<nr, nc>>] = 0,
                                       !.ignite = Append(@, <<nr, nc>>),
                                       !.grid = @ \cup {<<nr, nc>>}]
                        ELSE [f EXCEPT !.spread[<<nr, nc>>] = acc],
                        dt, r, c, d + 1)

spreadFireAtOnce(dt) ==
    LET f == spreadFromAtOnce([grid |-> fireGrid, spread |-> fireSpread, ignite |-> << >>],
                              dt, 0, 0, 1)
    IN  [grid |-> f.grid, spread |-> f.spread, count |-> fireCellCount + Len(f.ignite)]

\* f = [grid, spread, ignite]; the loops of spreadFire in source order
RECURSIVE spreadFrom(_, _, _, _, _)
spreadFrom(f, dt, r, c, d) ==
    IF r >= fireRows THEN f
    ELSE IF c >= fireCols THEN spreadFrom(f, dt, r + 1, 0, 1)
    ELSE IF <<r, c>> \notin f.grid \/ d > Len(FourDirs) THEN spreadFrom(f, dt, r, c + 1, 1)
    ELSE LET nr == r + FourDirs[d][1]
             nc == c + FourDirs[d][2]
         IN  IF nr < 0 \/ nr >= fireRows \/ nc < 0 \/ nc >= fireCols
                THEN spreadFrom(f, dt, r, c, d + 1)
             ELSE IF <<nr, nc>> \in f.grid \/ ~ passable[nr][nc]
                THEN spreadFrom(f, dt, r, c, d + 1)
             ELSE LET acc == f.spread[<<nr, nc>>] + dt * FIRE_SPREAD_RATE
                  IN  spreadFrom(
                        IF acc >= 1000
                        THEN [f EXCEPT !.spread[<<nr, nc>>] = 0,
                                       !.ignite = Append(@, <<nr, nc>>)]
                        ELSE [f EXCEPT !.spread[<<nr, nc>>] = acc],
                        dt, r, c, d + 1)

spreadFire(dt) ==
    LET f == spreadFrom([grid |-> fireGrid, spread |-> fireSpread, ignite |-> << >>], dt, 0, 0, 1)
    IN  [grid |-> fireGrid \cup Range(f.ignite), spread |-> f.spread,
         count |-> fireCellCount + Len(f.ignite)]

\* -------------------------------------------------------------------- smoke
\* Intensities are fixed-point numbers: SMOKE_ONE is the intensity 1.0.
SMOKE_ONE == 1000000
SMOKE_DIFFUSE == 3         \* 0.06 per second = 3/1000 per tick
SMOKE_DECAY == 9           \* 0.018 per second = 9/10000 per tick
SMOKE_VISIBLE == 10000     \* 0.01

\* the smoke a cell receives from its neighbours inside the grid
inflow(smoke, dt, r, c) ==
    LET from(d) ==
            LET nr == r + FourDirs[d][1]
                nc == c + FourDirs[d][2]
            IN  IF nr >= 0 /\ nr < fireRows /\ nc >= 0 /\ nc < fireCols
                THEN (smoke[<<nr, nc>>] * SMOKE_DIFFUSE * dt) \div 1000
                ELSE 0
    IN  from(1) + from(2) + from(3) + from(4)

\* spreadSmoke(dt) on the fire grid fire and the smoke grid smokeGrid
spreadSmoke(fire, dt) ==
    LET capped(rc) == Min(SMOKE_ONE, smokeGrid[rc] + inflow(smokeGrid, dt, rc[1], rc[2]))
        next == [rc \in Cells |->
                    IF rc \in fire THEN SMOKE_ONE
                    ELSE capped(rc) - (capped(rc) * SMOKE_DECAY * dt) \div 10000]
    IN  [grid |-> next, has |-> \E rc \in Cells : next[rc] > SMOKE_VISIBLE]

\* ------------------------------------------------------- hash and density
\* hashInsert that leaves no agent out
hashInsertAll(ags) == {ags[i].id : i \in DOMAIN ags}

\* the ids the tick inserts into the spatial hash
hashInsert(ags) == {ags[i].id : i \in {j \in DOMAIN ags : ags[j].state # "exited"}}

\* computeDensityGrid() on the agents ags, in persons per square metre
computeDensityGrid(ags) ==
    LET rows == CeilDiv(layout.height, cfg.cellSize)
        cols == CeilDiv(layout.width, cfg.cellSize)
    IN  [rc \in (0..(rows - 1)) \X (0..(cols - 1)) |->
            Cardinality({i \in DOMAIN ags :
                            /\ ags[i].state # "exited"
                            /\ ags[i].y \div cfg.cellSize = rc[1]
                            /\ ags[i].x \div cfg.cellSize = rc[2]})
                * ((SCALE * SCALE) \div (cfg.cellSize * cfg.cellSize))]

maxOfGrid(grid) ==
    IF \E rc \in DOMAIN grid : grid[rc] > 0
    THEN CHOOSE v \in Range(grid) : \A rc \in DOMAIN grid : grid[rc] <= v
    ELSE 0

\* the metrics block with the current maximum stored as the peak
densityMetricsCurrent(ags, dt, t1) ==
    LET maxDensity == maxOfGrid(computeDensityGrid(ags))
    IN  [peak |-> maxDensity,
         warning |-> IF maxDensity > cfg.densityWarning
                     THEN Min(timeAboveWarning + dt, t1) ELSE timeAboveWarning,
         danger |-> IF maxDensity > cfg.densityDanger
                    THEN Min(timeAboveDanger + dt, t1) ELSE timeAboveDanger]

\* the density metrics block of tick.  An accumulator never exceeds the clock;
\* where the clock is cut at a horizon t1 the accumulators are cut with it.
densityMetrics(ags, dt, t1) ==
    LET maxDensity == maxOfGrid(computeDensityGrid(ags))
    IN  [peak |-> IF maxDensity > peakDensity THEN maxDensity ELSE peakDensity,
         warning |-> IF maxDensity > cfg.densityWarning
                     THEN Min(timeAboveWarning + dt, t1) ELSE timeAboveWarning,
         danger |-> IF maxDensity > cfg.densityDanger
                    THEN Min(timeAboveDanger + dt, t1) ELSE timeAboveDanger]

\* ------------------------------------------------------------------ actions
DT_CLAMP == 1       \* 0.05 s

\* no sweep under way
SweepIdle ==
    [pc |-> "idle", by |-> "none", n |-> 0, values |-> << >>, vi |-> 0, t |-> 0,
     results |-> << >>, progress |-> << >>]

Budget == calls < MaxCalls /\ calls' = calls + 1

\* a clearFire that leaves the smoke where it is
ClearFireKeepingSmoke(p) ==
    /\ held' = IF held # << >> /\ held[1].aliased
               THEN << [held[1] EXCEPT !.aliased = FALSE, !.fireGrid = fireGrid] >>
               ELSE held
    /\ fireGrid' = {}
    /\ fireSpread' = [rc \in (0..(GridRows(p) - 1)) \X (0..(GridCols(p) - 1)) |-> 0]
    /\ smokeGrid' = [rc \in (0..(GridRows(p) - 1)) \X (0..(GridCols(p) - 1)) |->
                        IF rc \in DOMAIN smokeGrid THEN smokeGrid[rc] ELSE 0]
    /\ fireCellCount' = 0
    /\ UNCHANGED hasSmoke

\* clearFire(): new arrays; a held frame keeps the array it was given
ClearFire(p) ==
    /\ held' = IF held # << >> /\ held[1].aliased
               THEN << [held[1] EXCEPT !.aliased = FALSE, !.fireGrid = fireGrid] >>
               ELSE held
    /\ fireGrid' = {}
    /\ fireSpread' = [rc \in (0..(GridRows(p) - 1)) \X (0..(GridCols(p) - 1)) |-> 0]
    /\ smokeGrid' = [rc \in (0..(GridRows(p) - 1)) \X (0..(GridCols(p) - 1)) |-> 0]
    /\ fireCellCount' = 0
    /\ hasSmoke' = FALSE

\* rebuild(): grids, fire and queues for the layout lay
Rebuild(lay) ==
    /\ passable' = buildPassableGrid(lay.width, lay.height, lay.walls, SCALE)
    /\ ClearFire(passable')

\* new SimEngine(layout, cfg)
InitFor(lays, cfgs) ==
    /\ layout \in lays
    /\ cfg \in cfgs
    /\ agents = << >>
    /\ simTime = 0
    /\ isRunning = FALSE
    /\ isEvacuating = FALSE
    /\ passable = buildPassableGrid(layout.width, layout.height, layout.walls, SCALE)
    /\ hash = {}
    /\ peakDensity = 0
    /\ timeAboveWarning = 0
    /\ timeAboveDanger = 0
    /\ egressTimes = << >>
    /\ queues = rebuildQueues(layout).queues
    /\ queueServiced = rebuildQueues(layout).queueServiced
    /\ fireGrid = {}
    /\ fireSpread = [rc \in (0..(GridRows(passable) - 1)) \X (0..(GridCols(passable) - 1)) |-> 0]
    /\ smokeGrid = [rc \in (0..(GridRows(passable) - 1)) \X (0..(GridCols(passable) - 1)) |-> 0]
    /\ fireCellCount = 0
    /\ hasSmoke = FALSE
    /\ fireStartTime = -1
    /\ blockedExits = {}
    /\ spawnedCount = 0
    /\ totalToSpawn = 0
    /\ nextId = 0
    /\ lastOp = [op |-> "other"]
    /\ calls = 0
    /\ sweep = SweepIdle
    /\ held = << >>
    /\ firefighters = << >>
    /\ firefightersSpawned = FALSE
    /\ ffNextId = 0

Init == InitFor(Layouts, Configs)

UpdateConfig(c) ==
    /\ Budget
    /\ c # cfg
    /\ cfg' = c
    /\ lastOp' = [op |-> "other"]
    /\ UNCHANGED << sweep, held, ffVars >>
    /\ UNCHANGED << layout, agents, simTime, isRunning, isEvacuating, passable, egressTimes,
                    queues, queueServiced, fireGrid, fireSpread, fireCellCount, fireStartTime,
                    blockedExits, spawnedCount, totalToSpawn, nextId, hash, metricVars,
                    smokeVars >>

UpdateLayout(lay) ==
    /\ Budget
    /\ layout' = lay
    /\ Rebuild(lay)
    /\ queues' = rebuildQueues(lay).queues
    /\ queueServiced' = rebuildQueues(lay).queueServiced
    /\ lastOp' = [op |-> "other"]
    /\ UNCHANGED << sweep, ffVars >>
    /\ UNCHANGED << cfg, agents, simTime, isRunning, isEvacuating, egressTimes, fireStartTime,
                    blockedExits, spawnedCount, totalToSpawn, nextId, hash, metricVars >>

\* reset that leaves the queues and the serving counters as they are
ResetKeepingQueues ==
    /\ Budget
    /\ agents' = << >>
    /\ simTime' = 0
    /\ isRunning' = FALSE
    /\ isEvacuating' = FALSE
    /\ peakDensity' = 0
    /\ timeAboveWarning' = 0
    /\ timeAboveDanger' = 0
    /\ egressTimes' = << >>
    /\ spawnedCount' = 0
    /\ blockedExits' = {}
    /\ nextId' = 0
    /\ totalToSpawn' = cfg.N
    /\ Rebuild(layout)
    /\ firefighters' = << >>
    /\ firefightersSpawned' = FALSE
    /\ fireStartTime' = -1
    /\ ffNextId' = 0
    /\ lastOp' = [op |-> "reset"]
    /\ UNCHANGED sweep
    /\ UNCHANGED << layout, cfg, queues, queueServiced, hash >>

Reset ==
    /\ Budget
    /\ agents' = << >>
    /\ simTime' = 0
    /\ isRunning' = FALSE
    /\ isEvacuating' = FALSE
    /\ peakDensity' = 0
    /\ timeAboveWarning' = 0
    /\ timeAboveDanger' = 0
    /\ egressTimes' = << >>
    /\ spawnedCount' = 0
    /\ blockedExits' = {}
    /\ nextId' = 0
    /\ totalToSpawn' = cfg.N
    /\ Rebuild(layout)
    /\ queues' = rebuildQueues(layout).queues
    /\ queueServiced' = rebuildQueues(layout).queueServiced
    /\ firefighters' = << >>
    /\ firefightersSpawned' = FALSE
    /\ fireStartTime' = -1
    /\ ffNextId' = 0
    /\ lastOp' = [op |-> "reset"]
    /\ UNCHANGED sweep
    /\ UNCHANGED << layout, cfg, hash >>

\* startFire that stamps fireStartTime on every ignition
StartFireRestamping(w) ==
    LET c == w.x \div SCALE
        r == w.y \div SCALE
        hit == r >= 0 /\ r < fireRows /\ c >= 0 /\ c < fireCols /\ passable[r][c]
    IN  /\ Budget
        /\ lastOp' = [op |-> "startFire", x |-> w.x, y |-> w.y]
        /\ UNCHANGED << sweep, held, ffVars >>
        /\ IF hit
           THEN /\ fireGrid' = fireGrid \cup {<<r, c>>}
                /\ fireCellCount' = IF <<r, c>> \in fireGrid THEN fireCellCount
                                    ELSE fireCellCount + 1
                /\ fireStartTime' = simTime
                /\ Commit(IF ~ isEvacuating THEN triggerEvacuation(Self) ELSE Self)
           ELSE UNCHANGED << fireGrid, fireCellCount, fireStartTime, agents, isEvacuating,
                             egressTimes, queues, queueServiced, blockedExits, spawnedCount,
                             nextId >>
        /\ UNCHANGED << layout, cfg, simTime, isRunning, passable, fireSpread, totalToSpawn,
                        hash, metricVars, smokeVars >>

\* startFire that ignites the cell without looking at the passability grid
StartFireAnywhere(w) ==
    LET c == w.x \div SCALE
        r == w.y \div SCALE
        hit == r >= 0 /\ r < fireRows /\ c >= 0 /\ c < fireCols
    IN  /\ Budget
        /\ lastOp' = [op |-> "startFire", x |-> w.x, y |-> w.y]
        /\ UNCHANGED << sweep, held, ffVars >>
        /\ IF hit
           THEN /\ fireGrid' = fireGrid \cup {<<r, c>>}
                /\ fireCellCount' = IF <<r, c>> \in fireGrid THEN fireCellCount
                                    ELSE fireCellCount + 1
                /\ fireStartTime' = IF fireStartTime < 0 THEN simTime ELSE fireStartTime
                /\ Commit(IF ~ isEvacuating THEN triggerEvacuation(Self) ELSE Self)
           ELSE UNCHANGED << fireGrid, fireCellCount, fireStartTime, agents, isEvacuating,
                             egressTimes, queues, queueServiced, blockedExits, spawnedCount,
                             nextId >>
        /\ UNCHANGED << layout, cfg, simTime, isRunning, passable, fireSpread, totalToSpawn,
                        hash, metricVars, smokeVars >>

StartFire(w) ==
    LET c == w.x \div SCALE
        r == w.y \div SCALE
        hit == r >= 0 /\ r < fireRows /\ c >= 0 /\ c < fireCols /\ passable[r][c]
    IN  /\ Budget
        /\ lastOp' = [op |-> "startFire", x |-> w.x, y |-> w.y]
        /\ UNCHANGED << sweep, held, ffVars >>
        /\ IF hit
           THEN /\ fireGrid' = fireGrid \cup {<<r, c>>}
                /\ fireCellCount' = IF <<r, c>> \in fireGrid THEN fireCellCount
                                    ELSE fireCellCount + 1
                /\ fireStartTime' = IF fireStartTime < 0 THEN simTime ELSE fireStartTime
                /\ Commit(IF ~ isEvacuating THEN triggerEvacuation(Self) ELSE Self)
           ELSE UNCHANGED << fireGrid, fireCellCount, fireStartTime, agents, isEvacuating,
                             egressTimes, queues, queueServiced, blockedExits, spawnedCount,
                             nextId >>
        /\ UNCHANGED << layout, cfg, simTime, isRunning, passable, fireSpread, totalToSpawn,
                        hash, metricVars, smokeVars >>

RECURSIVE rerouteFrom(_, _)
rerouteFrom(k, i) ==
    IF i > Len(k.agents) THEN k
    ELSE LET a == k.agents[i]
         IN  IF a.state \in ExitStates /\ a.targetExitId # NULL
                /\ a.targetExitId \in k.blockedExits
             THEN rerouteFrom([k EXCEPT !.agents[i] =
                                  computePath(k, [a EXCEPT !.targetExitId = NULL])], i + 1)
             ELSE rerouteFrom(k, i + 1)

\* setBlockedExits that stores the set and re-routes nobody
setBlockedExitsOnly(k, ids) == [k EXCEPT !.blockedExits = ids]

setBlockedExits(k, ids) == rerouteFrom([k EXCEPT !.blockedExits = ids], 1)

SetBlockedExits(ids) ==
    /\ Budget
    /\ ids # blockedExits
    /\ Commit(setBlockedExits(Self, ids))
    /\ lastOp' = [op |-> "setBlockedExits"]
    /\ UNCHANGED << sweep, held, ffVars >>
    /\ UNCHANGED << layout, cfg, simTime, isRunning, passable, fireGrid, fireSpread,
                    fireCellCount, fireStartTime, totalToSpawn, hash, metricVars, smokeVars >>

Start ==
    /\ ~ isRunning
    /\ isRunning' = TRUE
    /\ lastOp' = [op |-> "other"]
    /\ UNCHANGED << sweep, held, ffVars >>
    /\ UNCHANGED << layout, cfg, agents, simTime, isEvacuating, passable, egressTimes, queues,
                    queueServiced, fireGrid, fireSpread, fireCellCount, fireStartTime,
                    blockedExits, spawnedCount, totalToSpawn, nextId, calls, hash,
                    metricVars, smokeVars >>

Pause ==
    /\ isRunning
    /\ isRunning' = FALSE
    /\ lastOp' = [op |-> "other"]
    /\ UNCHANGED << sweep, held, ffVars >>
    /\ UNCHANGED << layout, cfg, agents, simTime, isEvacuating, passable, egressTimes, queues,
                    queueServiced, fireGrid, fireSpread, fireCellCount, fireStartTime,
                    blockedExits, spawnedCount, totalToSpawn, nextId, calls, hash,
                    metricVars, smokeVars >>

\* an evacuation check that does not look at the flag
afterTriggerAgain ==
    IF cfg.evacuationEnabled /\ simTime >= cfg.evacuationTime
    THEN triggerEvacuation(Self) ELSE Self

\* an evacuation check that fires one tick after the configured time
afterTriggerLate ==
    IF cfg.evacuationEnabled /\ ~ isEvacuating /\ simTime > cfg.evacuationTime
    THEN triggerEvacuation(Self) ELSE Self

\* the phases of a running tick ahead of the agent updates
afterTrigger ==
    IF cfg.evacuationEnabled /\ ~ isEvacuating /\ simTime >= cfg.evacuationTime
    THEN triggerEvacuation(Self) ELSE Self

\* moves that differ only for agents that do not move are the same tick
MovesFor(k) ==
    {m \in [1..Len(k.agents) -> MoveKinds] :
        \A i \in 1..Len(k.agents) :
            k.agents[i].state \notin {"seeking_attractor", "seeking_exit", "evacuating"}
                => m[i] = "toward"}

\* ------------------------------------------------------------ firefighters
\* A firefighter is [id, x, y, path, pathIndex, targetCell, extinguishTimer];
\* targetCell is << >> (none) or <<row, col>>, the timer is in ticks.  As for the
\* agents, the velocity is not kept: a firefighter on its way takes one
\* lattice step per tick toward its waypoint.  Its body of 0.3 m is one
\* lattice unit, the margin of 0.5 m it keeps to the venue edge SCALE / 2.
FF_RESPONSE_DELAY == 600   \* 30 s
FF_COUNT == 3
FF_EXTINGUISH_T == 30      \* 1.5 s

\* f = [grid, spread, count, ffs, spawned, nextId]: the fire and the crew as
\* tickFirefighters finds them and leaves them.
\* d[i] is the offset of the i-th firefighter from the middle of its entrance,
\* (Math.random() - 0.5) * ent.width * 0.5 rounded to the lattice
spawnFirefighters(f, d) ==
    IF Len(layout.entrances) = 0 THEN f
    ELSE [f EXCEPT
            !.ffs = @ \o [i \in 1..FF_COUNT |->
                            LET ent == layout.entrances[((i - 1) % Len(layout.entrances)) + 1]
                            IN  [id |-> f.nextId + i - 1, x |-> ent.x + d[i], y |-> ent.y,
                                 path |-> << >>, pathIndex |-> 0, targetCell |-> << >>,
                                 extinguishTimer |-> 0]],
            !.nextId = @ + FF_COUNT]

\* the burning cell whose centre is nearest to (x, y), the first such cell in
\* row-major order; << >> when nothing burns
findNearestFireCell(grid, x, y) ==
    LET d2(rc) == dist2(x, y, rc[2] * SCALE + SCALE \div 2, rc[1] * SCALE + SCALE \div 2)
        before(a, b) == a[1] < b[1] \/ (a[1] = b[1] /\ a[2] <= b[2])
    IN  IF grid = {} THEN << >>
        ELSE CHOOSE rc \in grid :
                \A o \in grid : d2(rc) < d2(o) \/ (d2(rc) = d2(o) /\ before(rc, o))

\* the water that takes one from the count whether or not the target still burns
extinguishUnchecked(f, cell) ==
    LET around == {rc \in Cells : rc # cell /\ Abs(rc[1] - cell[1]) <= 1
                                            /\ Abs(rc[2] - cell[2]) <= 1}
        young == {rc \in around \cap f.grid : f.spread[rc] < 600}
    IN  [f EXCEPT !.grid = (@ \ {cell}) \ young,
                  !.count = (@ - 1) - Cardinality(young),
                  !.spread = [rc \in DOMAIN @ |->
                                IF rc \in around \/ (rc = cell /\ cell \in f.grid)
                                THEN 0 ELSE @[rc]]]

\* the water falls on the target cell and its eight neighbours: the target
\* goes out if it burns, a burning neighbour if its spread value is below 0.6,
\* and the spread value of every neighbour inside the grid is cleared
extinguish(f, cell) ==
    LET around == {rc \in Cells : rc # cell /\ Abs(rc[1] - cell[1]) <= 1
                                            /\ Abs(rc[2] - cell[2]) <= 1}
        young == {rc \in around \cap f.grid : f.spread[rc] < 600}
    IN  [f EXCEPT !.grid = (@ \ {cell}) \ young,
                  !.count = (IF cell \in f.grid THEN @ - 1 ELSE @) - Cardinality(young),
                  !.spread = [rc \in DOMAIN @ |->
                                IF rc \in around \/ (rc = cell /\ cell \in f.grid)
                                THEN 0 ELSE @[rc]]]

\* the body of the loop of tickFirefighters for the i-th firefighter
updateFirefighter(f, i, dt) ==
    LET ff == f.ffs[i]
        found == findNearestFireCell(f.grid, ff.x, ff.y)
        retarget == ff.targetCell = << >> \/ ff.targetCell \notin f.grid
        ff1 == IF retarget
               THEN [ff EXCEPT !.targetCell = found,
                               !.path = astar(passable, Vec(ff.x, ff.y),
                                              Vec(found[2] * SCALE + SCALE \div 2,
                                                  found[1] * SCALE + SCALE \div 2), SCALE),
                               !.pathIndex = 0]
               ELSE ff
        wp == ff1.path[ff1.pathIndex + 1]
        step == Toward(ff1, wp)
        at == resolveWallCollisions(
                [x |-> clamp(ff1.x + step.x, SCALE \div 2, layout.width - SCALE \div 2),
                 y |-> clamp(ff1.y + step.y, SCALE \div 2, layout.height - SCALE \div 2),
                 radius |-> 1])
    IN  IF ff.extinguishTimer > 0
        THEN IF ff.extinguishTimer - dt <= 0 /\ ff.targetCell # << >>
             THEN [extinguish(f, ff.targetCell) EXCEPT
                      !.ffs[i].extinguishTimer = ff.extinguishTimer - dt,
                      !.ffs[i].targetCell = << >>]
             ELSE [f EXCEPT !.ffs[i].extinguishTimer = ff.extinguishTimer - dt]
        ELSE IF retarget /\ found = << >> THEN f
        ELSE IF ff1.pathIndex >= Len(ff1.path)
        THEN [f EXCEPT !.ffs[i] = [ff1 EXCEPT !.extinguishTimer = FF_EXTINGUISH_T]]
        ELSE [f EXCEPT !.ffs[i] =
                [ff1 EXCEPT !.pathIndex = IF WithinReach(ff1.x, ff1.y, wp) THEN @ + 1 ELSE @,
                            !.x = at.x, !.y = at.y]]

RECURSIVE tickFirefightersFrom(_, _, _)
tickFirefightersFrom(f, i, dt) ==
    IF i > Len(f.ffs) THEN f
    ELSE tickFirefightersFrom(updateFirefighter(f, i, dt), i + 1, dt)

\* tickFirefighters(dt) on the fire as spreadFire left it
tickFirefighters(f, dt, d) ==
    tickFirefightersFrom(
        IF ~ f.spawned /\ fireStartTime >= 0 /\ simTime - fireStartTime >= FF_RESPONSE_DELAY
        THEN [spawnFirefighters(f, d) EXCEPT !.spawned = TRUE]
        ELSE f,
        1, dt)

\* the agent phases of tick after the spawn: updates, then queues
tickFrom(spawned, moves) == processQueues(updateAgents(spawned, moves, 1))

tick(dt, draws, moves) == tickFrom(spawnAgents(afterTrigger, draws), moves)

\* tick(dt) on a running kernel; t1 is the clock the tick leaves.  The result
\* of each phase is bound once, as the element of a singleton set.
RunTick(dt, t1) ==
    /\ \E draws \in [1..toSpawnNow(afterTrigger) -> SpawnDraws] :
         \E spawned \in {spawnAgents(afterTrigger, draws)} :
         \E moves \in MovesFor(spawned) :
         \E k \in {tickFrom(spawned, moves)} :
         \E metrics \in {densityMetrics(k.agents, dt, t1)} :
            /\ Commit(k)
            /\ hash' = hashInsert(spawned.agents)
            /\ peakDensity' = metrics.peak
            /\ timeAboveWarning' = metrics.warning
            /\ timeAboveDanger' = metrics.danger
    /\ \E fire \in {IF fireCellCount > 0 THEN spreadFire(dt)
                     ELSE [grid |-> fireGrid, spread |-> fireSpread, count |-> fireCellCount]} :
       \E smoke \in {IF fireCellCount > 0 \/ hasSmoke THEN spreadSmoke(fire.grid, dt)
                      ELSE [grid |-> smokeGrid, has |-> hasSmoke]} :
       \E d \in [1..FF_COUNT -> -1..1] :
          /\ \A i \in 1..FF_COUNT :
                IF Len(layout.entrances) = 0 \/ firefightersSpawned THEN d[i] = 0
                ELSE LET ent == layout.entrances[((i - 1) % Len(layout.entrances)) + 1]
                     IN  4 * d[i] >= - ent.width /\ 4 * d[i] < ent.width
          /\ \E f \in {tickFirefighters(
                           [grid |-> fire.grid, spread |-> fire.spread, count |-> fire.count,
                            ffs |-> firefighters, spawned |-> firefightersSpawned,
                            nextId |-> ffNextId], dt, d)} :
                /\ fireGrid' = f.grid
                /\ fireSpread' = f.spread
                /\ fireCellCount' = f.count
                /\ firefighters' = f.ffs
                /\ firefightersSpawned' = f.spawned
                /\ ffNextId' = f.nextId
          /\ smokeGrid' = smoke.grid
          /\ hasSmoke' = smoke.has
    /\ simTime' = t1
    /\ UNCHANGED << layout, cfg, isRunning, passable, fireStartTime, totalToSpawn, calls >>

\* tick that hands dt on as it came
TickBodyUnclamped(dt) ==
    IF ~ isRunning
    THEN UNCHANGED << layout, cfg, agents, simTime, isRunning, isEvacuating, passable,
                      egressTimes, queues, queueServiced, fireGrid, fireSpread,
                      fireCellCount, fireStartTime, blockedExits, spawnedCount,
                      totalToSpawn, nextId, calls, hash, metricVars, smokeVars, ffVars >>
    ELSE /\ simTime < MaxTime
         /\ RunTick(dt, simTime + dt)

\* tick that does not look at isRunning
TickBodyAlways(dt) ==
    /\ simTime < MaxTime
    /\ RunTick(Min(dt, DT_CLAMP), simTime + Min(dt, DT_CLAMP))

\* tick(dt) up to the horizon MaxTime
TickBody(dt) ==
    IF ~ isRunning
    THEN UNCHANGED << layout, cfg, agents, simTime, isRunning, isEvacuating, passable,
                      egressTimes, queues, queueServiced, fireGrid, fireSpread,
                      fireCellCount, fireStartTime, blockedExits, spawnedCount,
                      totalToSpawn, nextId, calls, hash, metricVars, smokeVars, ffVars >>
    ELSE /\ simTime < MaxTime
         /\ RunTick(Min(dt, DT_CLAMP), simTime + Min(dt, DT_CLAMP))

Tick(dt) ==
    /\ lastOp' = [op |-> "other"]
    /\ UNCHANGED << sweep, held >>
    /\ TickBody(dt)

\* the same call, logged with its argument and with isRunning as it found it
LoggedTick(dt) ==
    /\ lastOp' = [op |-> "tick", dt |-> dt, ran |-> isRunning]
    /\ UNCHANGED << sweep, held >>
    /\ TickBody(dt)

Next ==
    \/ \E c \in Configs : UpdateConfig(c)
    \/ \E lay \in Layouts : UpdateLayout(lay)
    \/ Reset
    \/ Start
    \/ Pause
    \/ \E w \in FirePoints : StartFire(w)
    \/ \E ids \in SUBSET {"ex1", "ex2"} : SetBlockedExits(ids)
    \/ \E dt \in DtInputs : Tick(dt)

Spec == Init /\ [][Next]_vars

\* ------------------------------------------------- runs that keep ticking
\* The host's animation loop (App.tsx) calls tick on every frame while the
\* kernel runs.  The venues have no attractor and the config no evacuation
\* timer, so a tick reads the clock only to stamp exit times; clock readings
\* from MaxTime on are identified, which makes the state space finite.
LiveLayouts == {VENUE_B, VENUE_C}

LiveInit == InitFor(LiveLayouts, {CFG_QUEUE})

LiveTick ==
    /\ isRunning
    /\ lastOp' = [op |-> "other"]
    /\ UNCHANGED << sweep, held >>
    /\ RunTick(DT_CLAMP, Min(simTime + DT_CLAMP, MaxTime))

LiveNext ==
    \/ Start
    \/ LiveTick
    \/ \E ids \in SUBSET {"ex1", "ex2"} : SetBlockedExits(ids)

\* no tick can change the state any more: ~ ENABLED <<LiveTick>>_vars written out
TickIdle ==
    \/ ~ isRunning
    \/ /\ simTime >= MaxTime
       /\ lastOp = [op |-> "other"]
       /\ fireCellCount = 0
       /\ ~ hasSmoke
       /\ fireStartTime < 0
       /\ firefighters = << >>
       /\ toSpawnNow(afterTrigger) = 0
       /\ tick(DT_CLAMP, << >>, [i \in 1..Len(afterTrigger.agents) |-> "toward"]) = Self
       /\ hashInsert(afterTrigger.agents) = hash
       /\ densityMetrics(agents, DT_CLAMP, MaxTime)
            = [peak |-> peakDensity, warning |-> timeAboveWarning, danger |-> timeAboveDanger]

\* start() is followed by the frame loop, which never stops calling tick: weak
\* fairness of Start and of LiveTick, the latter with its enabling condition
\* given by TickIdle
LiveSpec ==
    /\ LiveInit /\ [][LiveNext]_vars
    /\ WF_vars(Start)
    /\ ([]<>TickIdle \/ []<><<LiveTick>>_vars)

\* -------------------------------------------- runs that let a fire spread
\* A cell next to a burning one ignites after 1 / 0.18 s, 112 ticks.  The
\* venue is left without visitors (N = 0), so that a run is its fire, its
\* smoke and the host's calls.
FireHorizon == 114

CFG_EMPTY == [CFG_QUEUE EXCEPT !.N = 0]

FireInit == InitFor({VENUE_A}, {CFG_EMPTY})

FireTick ==
    /\ isRunning
    /\ simTime < FireHorizon
    /\ lastOp' = [op |-> "other"]
    /\ UNCHANGED << sweep, held >>
    /\ RunTick(DT_CLAMP, simTime + DT_CLAMP)

FireNext ==
    \/ Start
    \/ FireTick
    \/ \E w \in FirePoints : StartFire(w)
    \/ \E lay \in Layouts : UpdateLayout(lay)

FireSpec == FireInit /\ [][FireNext]_vars

\* ----------------------------------------------------- runs with logged ticks
\* One venue and one config; every tick is logged, so that a step can be told
\* to be a tick and its dt read.  In these runs a last call logged as "other"
\* is a start() or a pause().
ClockInit == InitFor({VENUE_A}, {CFG_EVAC})

ClockNext ==
    \/ Start
    \/ Pause
    \/ Reset
    \/ \E w \in FirePoints : StartFire(w)
    \/ \E dt \in DtInputs : LoggedTick(dt)

ClockSpec == ClockInit /\ [][ClockNext]_vars

\* ------------------------------------------------- the planner on its own
\* astar applied to every grid of a 3 m x 3 m venue with at most MaxWalls
\* walled cells, for start and goal points in every cell and outside the venue.
MaxWalls == 3

ProbeLayouts ==
    LET RECURSIVE wallsFrom(_, _)
        wallsFrom(B, i) ==
            IF i > 8 THEN << >>
            ELSE (IF <<i \div 3, i % 3>> \in B
                  THEN << [x |-> (i % 3) * SCALE, y |-> (i \div 3) * SCALE,
                           w |-> SCALE - 1, h |-> SCALE - 1] >>
                  ELSE << >>) \o wallsFrom(B, i + 1)
    IN  {[width |-> 3 * SCALE, height |-> 3 * SCALE, walls |-> wallsFrom(B, 0),
          entrances |-> << >>, exits |-> << >>, attractors |-> << >>] :
            B \in {S \in SUBSET ((0..2) \X (0..2)) : Cardinality(S) <= MaxWalls}}

\* one point in each cell, off its centre, and a point outside the venue
ProbePoints == {Vec(SCALE * c + 1, SCALE * r + 3) : c \in 0..2, r \in 0..2} \cup {Vec(-1, 5)}

AstarInit == InitFor(ProbeLayouts, {CFG_EMPTY})

\* astar(passable, start, goal, ASTAR_CELL), once on each grid; the call and
\* its result are logged
Plan(start, goal) ==
    /\ lastOp.op # "astar"
    /\ \E path \in {astar(passable, start, goal, SCALE)} :
            /\ UNCHANGED << sweep, held, ffVars >>
            /\ lastOp' = [op |-> "astar", start |-> start, goal |-> goal, path |-> path]
    /\ UNCHANGED << layout, cfg, agents, simTime, isRunning, isEvacuating, passable, hash,
                    metricVars, egressTimes, queues, queueServiced, fireGrid, fireSpread,
                    smokeVars, fireCellCount, fireStartTime, blockedExits, spawnedCount,
                    totalToSpawn, nextId, calls >>

AstarNext == \E start \in ProbePoints, goal \in ProbePoints : Plan(start, goal)

AstarSpec == AstarInit /\ [][AstarNext]_vars

\* ------------------------------------------------------------------ metrics
\* getMetrics().activeAgents and .exitedAgents
activeAgents == Cardinality({i \in DOMAIN agents : agents[i].state # "exited"})
exitedAgents == Len(egressTimes)

\* the ids of the exits of a layout, and whether a blocked set seals them all
ExitIds(lay) == {lay.exits[j].id : j \in DOMAIN lay.exits}
AllBlocked(lay, blocked) == ExitIds(lay) \subseteq blocked

\* agent a stands within the absorb distance of an exit of lay that is not blocked
NearOpenExit(a, lay, blocked) ==
    \E j \in DOMAIN lay.exits :
        lay.exits[j].id \notin blocked /\ WithinAbsorb(a, lay.exits[j])

\* a step that is a tick of a running kernel (reset sets the clock to 0)
RunningTickStep == simTime' = simTime + DT_CLAMP

\* ------------------------------------------------------------------- claims
\* C1: in every reachable state, the number of agents not exited plus the
\* number of recorded egress times equals the number of agents spawned so far.
C1_Conservation == activeAgents + exitedAgents = spawnedCount

\* some agents have exited while others are still in the venue
C1_Witness == exitedAgents > 0 /\ activeAgents > 0 /\ activeAgents + exitedAgents = spawnedCount

\* C2: in the step that triggers evacuation (start_fire or the timer inside a
\* tick) the flag becomes true and every agent that is not exited is left in
\* state evacuating, whatever state it was in before.
C2_AllEvacuating ==
    [][(~ isEvacuating /\ isEvacuating') =>
          \A i \in DOMAIN agents' :
              agents'[i].state # "exited" => agents'[i].state = "evacuating"]_vars

\* C3: start_fire on an in-bounds passable cell leaves that cell burning and the
\* evacuation flag set, and stamps fireStartTime only if no fire was started
\* before; on any other point it leaves the fire grid, the burning-cell count,
\* the evacuation flag and fireStartTime as they were.
C3_StartFire ==
    [][lastOp'.op = "startFire" =>
          LET c == lastOp'.x \div SCALE
              r == lastOp'.y \div SCALE
          IN  IF IsPassable(passable, r, c)
              THEN /\ <<r, c>> \in fireGrid'
                   /\ isEvacuating'
                   /\ fireStartTime' = IF fireStartTime < 0 THEN simTime ELSE fireStartTime
              ELSE /\ fireGrid' = fireGrid
                   /\ fireCellCount' = fireCellCount
                   /\ isEvacuating' = isEvacuating
                   /\ fireStartTime' = fireStartTime]_vars

\* a second start_fire on a burning venue, later than the first ignition
C3_Witness ==
    /\ lastOp.op = "startFire"
    /\ IsPassable(passable, lastOp.y \div SCALE, lastOp.x \div SCALE)
    /\ fireStartTime >= 0 /\ fireStartTime < simTime
    /\ fireCellCount > 0 /\ isEvacuating

\* C4: at the end of every running tick no agent in state seeking_exit or
\* evacuating stands within the absorb distance of a non-blocked exit.
C4_AbsorbedByEndOfTick ==
    [][RunningTickStep =>
          \A i \in DOMAIN agents' :
              agents'[i].state \in ExitStates =>
                  ~ NearOpenExit(agents'[i], layout', blockedExits')]_vars

\* C5: an agent becomes exited only in a tick, only from state seeking_exit or
\* evacuating (the state it has once the tick's evacuation trigger has run), and
\* only where it stands within the absorb distance of an exit that is not
\* blocked; during a tick in which every exit is blocked no agent becomes
\* exited and the number of active agents does not decrease.
C5_ExitOnlyAtOpenExit ==
    [][/\ \A i \in DOMAIN agents' :
            (agents'[i].state = "exited"
             /\ (i \in DOMAIN agents => agents[i].state # "exited")) =>
                /\ RunningTickStep
                /\ i \in DOMAIN agents =>
                       \/ agents[i].state \in ExitStates
                       \/ ~ isEvacuating /\ isEvacuating'
                /\ NearOpenExit(agents'[i], layout, blockedExits)
       /\ (RunningTickStep /\ AllBlocked(layout, blockedExits)) =>
            /\ \A i \in DOMAIN agents' : agents'[i].state = "exited" =>
                   i \in DOMAIN agents /\ agents[i].state = "exited"
            /\ Cardinality({i \in DOMAIN agents' : agents'[i].state # "exited"})
                   >= activeAgents]_vars

\* every exit is blocked and an exit-seeking agent waits at one, not absorbed
C5_Witness ==
    /\ Len(layout.exits) > 0 /\ AllBlocked(layout, blockedExits)
    /\ simTime >= 4
    /\ \E i \in DOMAIN agents :
          /\ agents[i].state \in ExitStates
          /\ NearOpenExit(agents[i], layout, {})
          /\ agents[i].path # << >> /\ agents[i].pathIndex > 0

\* while some exit is open, no exit-seeking agent targets a blocked exit
NoBlockedTarget(ags, lay, blocked) ==
    ~ AllBlocked(lay, blocked) =>
        \A i \in DOMAIN ags :
            ags[i].state \in ExitStates => ags[i].targetExitId \notin blocked

\* the exit named id is open and no open exit is nearer to agent a
NearestOpen(a, id, lay, blocked) ==
    \E j \in DOMAIN lay.exits :
        /\ lay.exits[j].id = id /\ id \notin blocked
        /\ \A m \in DOMAIN lay.exits :
              lay.exits[m].id \notin blocked =>
                  dist2(a.x, a.y, lay.exits[j].x, lay.exits[j].y)
                      <= dist2(a.x, a.y, lay.exits[m].x, lay.exits[m].y)

\* C6 as stated: in every state from set_blocked_exits on, with at least one
\* exit open, no agent in state seeking_exit or evacuating targets a blocked exit.
C6_NoBlockedTarget == NoBlockedTarget(agents, layout, blockedExits)

\* C6 amended: set_blocked_exits leaves no exit-seeking agent with a blocked
\* target while some exit is open, and every later step that does not replace
\* the layout keeps it so; an agent the call re-plans targets the nearest open
\* exit, and every other agent is left as it was.
C6_NoBlockedTargetFixedLayout ==
    [][/\ (lastOp'.op = "setBlockedExits"
            \/ (layout' = layout /\ NoBlockedTarget(agents, layout, blockedExits)))
           => NoBlockedTarget(agents', layout', blockedExits')
       /\ lastOp'.op = "setBlockedExits" =>
             \A i \in DOMAIN agents :
                 IF agents[i].state \in ExitStates
                    /\ agents[i].targetExitId \in blockedExits'
                 THEN ~ AllBlocked(layout, blockedExits') =>
                          NearestOpen(agents[i], agents'[i].targetExitId, layout,
                                      blockedExits')
                 ELSE agents'[i] = agents[i]]_vars

\* set_blocked_exits has just sealed ex1 and sent an exit-seeking agent to ex2
C6_Witness ==
    /\ lastOp.op = "setBlockedExits"
    /\ blockedExits = {"ex1"}
    /\ ~ AllBlocked(layout, blockedExits)
    /\ \E i \in DOMAIN agents :
          agents[i].state \in ExitStates /\ agents[i].targetExitId = "ex2"

\* every agent spawned so far has exited, and all N have been spawned
AllExited ==
    /\ spawnedCount = cfg.N
    /\ \A i \in DOMAIN agents : agents[i].state = "exited"

\* C7: if every exit was blocked at some time and from some time on an exit is
\* open for good, then under continued ticking every agent ends up exited.
\* Stated for the hall VENUE_C, where agents walk from the entrance to an exit
\* in another cell and all exit when no exit is ever blocked.
C7_ExitAfterReopen ==
    layout = VENUE_C =>
        ((<>(AllBlocked(layout, blockedExits) /\ activeAgents > 0)
          /\ <>[](~ AllBlocked(layout, blockedExits)))
            => <>[]AllExited)

\* C8: with no exit ever blocked (no fire, no evacuation), under continued
\* ticking every spawned agent exits: exitedAgents reaches N and activeAgents 0.
C8_EveryAgentExits ==
    [](blockedExits = {} /\ fireCellCount = 0 /\ ~ isEvacuating)
        => <>(exitedAgents = cfg.N /\ activeAgents = 0)

\* C9: every agent that is not exited has radius <= x <= width - radius and
\* radius <= y <= height - radius, from the moment it is spawned.
C9_InsideVenue ==
    \A i \in DOMAIN agents :
        agents[i].state # "exited" =>
            /\ agents[i].radius <= agents[i].x
            /\ agents[i].x <= layout.width - agents[i].radius
            /\ agents[i].radius <= agents[i].y
            /\ agents[i].y <= layout.height - agents[i].radius

\* C10: no agent id is in the queues of two attractors, or twice in one queue.
C10_QueueExclusive ==
    \A a1 \in DOMAIN queues, a2 \in DOMAIN queues :
        \A j1 \in DOMAIN queues[a1], j2 \in DOMAIN queues[a2] :
            (a1 # a2 \/ j1 # j2) => queues[a1][j1] # queues[a2][j2]

\* an agent waits in a queue behind the agent being served
C10_Witness ==
    \E a \in DOMAIN queues :
        /\ Len(queues[a]) > 0
        /\ queueServiced[a] > 0
        /\ \E i \in DOMAIN agents :
              agents[i].id = queues[a][1] /\ agents[i].state = "queuing"

\* C11: in every reachable state, also after update_layout or update_config
\* was called while agents were queuing, an agent is in state queuing if and
\* only if its id is in exactly one queue, the queue of its target attractor.
C11_QueuingIffQueued ==
    LET QueuesHolding(id) ==
            {q \in DOMAIN queues : \E j \in 1..Len(queues[q]) : queues[q][j] = id}
    IN  \A i \in DOMAIN agents :
            (agents[i].state = "queuing")
                <=> (QueuesHolding(agents[i].id) = {agents[i].targetAttractorId})

\* C12: for every attractor, in every reachable state, the serving counter
\* equals the number of agents in state at_attractor with that attractor as
\* target, whichever way they entered or left that state (evacuation too).
C12_ServingCounter ==
    LET AtAttractor(id) ==
            {i \in DOMAIN agents :
                agents[i].state = "at_attractor" /\ agents[i].targetAttractorId = id}
    IN  \A id \in DOMAIN queueServiced :
            queueServiced[id] = Cardinality(AtAttractor(id))

\* ------------------------------------------------------------------ frames
\* getFrame(): the snapshot handed to the renderer
getFrame ==
    LET shown(a) == a.state # "exited"
        active == SelectSeq(agents, shown)
    IN  [agents |-> [i \in 1..Len(active) |->
                        [id |-> active[i].id, x |-> active[i].x, y |-> active[i].y,
                         radius |-> active[i].radius, state |-> active[i].state]],
         densityGrid |-> computeDensityGrid(agents),
         simTime |-> simTime, isRunning |-> isRunning, isEvacuating |-> isEvacuating,
         fireGrid |-> fireGrid, smokeGrid |-> smokeGrid, blockedExits |-> blockedExits,
         firefighters |-> [i \in 1..Len(firefighters) |->
                            [id |-> firefighters[i].id,
                             x |-> firefighters[i].x, y |-> firefighters[i].y,
                             extinguishing |-> firefighters[i].extinguishTimer > 0,
                             targetRow |-> IF firefighters[i].targetCell = << >> THEN -1
                                           ELSE firefighters[i].targetCell[1],
                             targetCol |-> IF firefighters[i].targetCell = << >> THEN -1
                                           ELSE firefighters[i].targetCell[2]]]]

\* C13: an exited agent stays exited for as long as the kernel keeps it; the
\* hash built by a later tick does not hold it, the density grid does not count
\* it, and a frame lists exactly the agents that are not exited.
C13_ExitedLeavesNoTrace ==
    [][ /\ \A i \in DOMAIN agents :
             (agents[i].state = "exited" /\ i \in DOMAIN agents'
                /\ lastOp'.op # "reset")
                => /\ agents'[i].state = "exited"
                   /\ agents'[i].id = agents[i].id
                   /\ RunningTickStep => agents[i].id \notin hash'
        /\ \A frame \in {getFrame} :
             LET active(a) == a.state # "exited"
             IN  /\ {frame.agents[i].id : i \in DOMAIN frame.agents}
                        = {agents[i].id : i \in {j \in DOMAIN agents : active(agents[j])}}
                 /\ Len(frame.agents) = activeAgents
                 /\ frame.densityGrid
                        = computeDensityGrid(SelectSeq(agents, active)) ]_vars

\* an agent exited in an earlier tick, with an active agent beside it, after a
\* tick that rebuilt the hash
C13_Witness ==
    /\ isRunning
    /\ \E i \in DOMAIN agents :
            agents[i].state = "exited" /\ agents[i].exitTime + 2 <= simTime
    /\ hash # {}
    /\ \A i \in DOMAIN agents : agents[i].state = "exited" => agents[i].id \notin hash

\* C14: every burning cell is a passable cell of the grid: start_fire and the
\* fire spread never ignite a wall cell, and update_layout leaves no fire on
\* a cell that the new layout walls up.
C14_BurningIsPassable ==
    \A rc \in fireGrid : rc \in Cells /\ passable[rc[1]][rc[2]]

\* the fire has spread to a cell that has a wall cell beside it
C14_Witness ==
    /\ fireCellCount >= 2
    /\ \E rc \in fireGrid : \E d \in DOMAIN FourDirs :
            LET n == <<rc[1] + FourDirs[d][1], rc[2] + FourDirs[d][2]>>
            IN  /\ fireSpread[rc] = 0 /\ simTime > fireStartTime + 100
                /\ n \in Cells /\ ~ passable[n[1]][n[2]]

\* C15: in every frame get_frame() can return, also one taken right after
\* start_fire or while the kernel is paused, every burning cell has smoke
\* intensity 1.0.
C15_BurningCellFullSmoke ==
    \A rc \in getFrame.fireGrid : getFrame.smokeGrid[rc] = SMOKE_ONE

\* C16: a cell that turns burning during a tick was passable, was not burning
\* and had a 4-neighbour burning when the tick began; the accumulator of a
\* cell that stays unburnt grows by the rate times the number of neighbours
\* that were burning when the tick began, so a cell ignited in the tick adds
\* nothing in that tick.
C16_IgnitionFromBurningNeighbour ==
    [][ RunningTickStep =>
        LET burning(rc) ==
                {d \in DOMAIN FourDirs :
                    <<rc[1] + FourDirs[d][1], rc[2] + FourDirs[d][2]>> \in fireGrid}
            gain(rc) == IF passable[rc[1]][rc[2]]
                        THEN FIRE_SPREAD_RATE * DT_CLAMP * Cardinality(burning(rc))
                        ELSE 0
        IN  /\ fireGrid \subseteq fireGrid'
            /\ \A rc \in fireGrid' \ fireGrid :
                    /\ rc \in Cells
                    /\ passable[rc[1]][rc[2]]
                    /\ burning(rc) # {}
                    /\ fireSpread'[rc] < gain(rc)
            /\ \A rc \in Cells \ fireGrid' :
                    fireSpread'[rc] = fireSpread[rc] + gain(rc) ]_vars

\* the tick that ignited two cells has left an unburnt passable cell beside
\* them with an empty accumulator
C16_Witness ==
    /\ fireCellCount >= 3
    /\ \E rc \in Cells \ fireGrid :
            /\ passable[rc[1]][rc[2]]
            /\ fireSpread[rc] = 0
            /\ \E d \in DOMAIN FourDirs :
                    <<rc[1] + FourDirs[d][1], rc[2] + FourDirs[d][2]>> \in fireGrid

\* C17: for every passability grid and every start and goal, each waypoint
\* astar returns, the final one excepted, is the centre of a passable cell;
\* the final waypoint is the goal.
C17_WaypointsOnPassableCentres ==
    lastOp.op = "astar" =>
        /\ Len(lastOp.path) >= 1
        /\ lastOp.path[Len(lastOp.path)] = lastOp.goal
        /\ \A i \in 1..(Len(lastOp.path) - 1) :
                \E r \in DOMAIN passable : \E c \in DOMAIN passable[r] :
                    /\ passable[r][c]
                    /\ lastOp.path[i] = Vec(c * SCALE + SCALE \div 2, r * SCALE + SCALE \div 2)

\* a path with a bend, around walls, to a goal inside a wall
C17_Witness ==
    /\ lastOp.op = "astar"
    /\ Len(lastOp.path) >= 3
    /\ Len(layout.walls) >= 2
    /\ lastOp.goal.x >= 0
    /\ ~ passable[lastOp.goal.y \div SCALE][lastOp.goal.x \div SCALE]

\* C18: from one state to the next, a reset apart, peakDensity,
\* timeAboveWarning and timeAboveDanger never decrease and the list of egress
\* times only grows at its end, so exitedAgents never decreases.
C18_MetricsMonotone ==
    [][ lastOp'.op # "reset" =>
            /\ peakDensity' >= peakDensity
            /\ timeAboveWarning' >= timeAboveWarning
            /\ timeAboveDanger' >= timeAboveDanger
            /\ Len(egressTimes') >= Len(egressTimes)
            /\ SubSeq(egressTimes', 1, Len(egressTimes)) = egressTimes ]_vars

\* the peak is held above the current density after an agent has left, and
\* time above the warning level has been counted
C18_Witness ==
    /\ peakDensity > maxOfGrid(computeDensityGrid(agents))
    /\ timeAboveWarning > 0
    /\ exitedAgents >= 1

QueueLayouts ==
    {[VENUE_A EXCEPT !.attractors = << [@[1] EXCEPT !.queueCapacity = 1], @[2] >>],
     [VENUE_A EXCEPT !.attractors = << @[2], [@[1] EXCEPT !.queueCapacity = 1] >>]}

\* visitors arriving one at a time, with queueing
CFG_TRICKLE == [CFG_QUEUE EXCEPT !.arrivalMode = "linear", !.arrivalDuration = 3]

SpawnInit ==
    InitFor({VENUE_A, [VENUE_A EXCEPT !.entrances = << >>]} \cup QueueLayouts,
            {CFG_QUEUE, CFG_EVAC, CFG_EMPTY, CFG_TRICKLE})

\* Another SimEngine of the same module (the sweep driver builds one per N)
\* shares _nextId with this one.  Its reset() zeroes the counter and each agent
\* it spawns takes the next id; nothing else of this kernel is touched.
OtherKernelReset ==
    /\ Budget
    /\ nextId' = 0
    /\ ffNextId' = 0
    /\ lastOp' = [op |-> "other"]
    /\ UNCHANGED << layout, cfg, agents, simTime, isRunning, isEvacuating, passable, hash,
                    metricVars, egressTimes, queues, queueServiced, fireGrid, fireSpread,
                    smokeVars, fireCellCount, fireStartTime, blockedExits, spawnedCount,
                    totalToSpawn, sweep, held, firefighters, firefightersSpawned >>

OtherKernelSpawn ==
    /\ Budget
    /\ nextId' = nextId + 1
    /\ lastOp' = [op |-> "other"]
    /\ UNCHANGED << layout, cfg, agents, simTime, isRunning, isEvacuating, passable, hash,
                    metricVars, egressTimes, queues, queueServiced, fireGrid, fireSpread,
                    smokeVars, fireCellCount, fireStartTime, blockedExits, spawnedCount,
                    totalToSpawn, sweep, held, ffVars >>

SpawnNext ==
    \/ Start
    \/ Pause
    \/ Reset
    \/ \E dt \in DtInputs : LoggedTick(dt)
    \/ OtherKernelReset
    \/ OtherKernelSpawn

SpawnSpec == SpawnInit /\ [][SpawnNext]_vars

\* C21: within a run (the config fixed, a reset() apart) the spawned count
\* never decreases and never exceeds N, and the agents created are as many as
\* counted; a running tick on a venue with an entrance leaves it at
\* max(previous count, floor(target fraction at the tick's start time * N)),
\* which in burst mode is N; with N = 0 or with no entrance no agent is ever
\* created.
C21_SpawnedCount ==
    [][ LET ranTick == lastOp'.op = "tick" /\ isRunning /\ Len(layout.entrances) > 0
            fractionOfN == IF cfg.arrivalMode = "burst" \/ simTime >= cfg.arrivalDuration
                           THEN cfg.N
                           ELSE (simTime * cfg.N) \div cfg.arrivalDuration
        IN  lastOp'.op # "reset" =>
              /\ spawnedCount' >= spawnedCount
              /\ spawnedCount' <= cfg.N
              /\ Len(agents') = spawnedCount'
              /\ ranTick => spawnedCount' = Max(spawnedCount, fractionOfN)
              /\ (ranTick /\ cfg.arrivalMode = "burst") => spawnedCount' = cfg.N
              /\ (cfg.N = 0 \/ Len(layout.entrances) = 0) => agents' = << >> ]_vars

\* a linear arrival part-way: one of two agents is in after a running tick
C21_Witness ==
    /\ lastOp.op = "tick" /\ lastOp.ran
    /\ cfg.arrivalMode = "linear"
    /\ spawnedCount = 1 /\ Len(agents) = 1
    /\ spawnedCount < cfg.N

\* C22: the attractor drawn for a newly spawned agent is never one whose queue
\* is enabled and full (queue length + serving >= queueCapacity) when the tick
\* draws it, and the draw gives no attractor only when none is available: as
\* long as some attractor of non-zero weight is not full and the kernel is not
\* evacuating, the new agent gets an attractor, wherever the full ones sit in
\* the attractor list.
C22_PickAvailable ==
    [][ LET Full(att) == /\ cfg.queueEnabled /\ att.queueEnabled
                         /\ Len(queues[att.id]) + queueServiced[att.id] >= att.queueCapacity
            atts == {layout.attractors[j] : j \in DOMAIN layout.attractors}
        IN  \A j \in (Len(agents) + 1)..Len(agents') :
              LET picked == agents'[j].targetAttractorId
              IN  /\ \A att \in atts : att.id = picked => ~ Full(att)
                  /\ ((\E att \in atts : att.weight > 0 /\ ~ Full(att)) /\ ~ isEvacuating')
                       => picked # NULL ]_vars

\* C23: two runs that start from reset() with the same layout and config and
\* receive the same operations have the same metric trajectory.  The kernel
\* has no seed: every random draw is an ambient Math.random() call, so two such
\* runs share everything but the draws.  Stated on the runs' common state: the
\* metrics a running tick leaves (the clock is the same; density accumulators,
\* egress times, queue lengths, active agents) do not depend on the draws of
\* the agents it spawns.
C23_SameRunSameMetrics ==
    (isRunning /\ simTime < MaxTime) =>
        \A dt \in DtInputs :
            LET getMetrics(k) ==
                    [density |-> densityMetrics(k.agents, Min(dt, DT_CLAMP),
                                                simTime + Min(dt, DT_CLAMP)),
                     egressTimes |-> k.egressTimes,
                     queueLengths |-> [a \in DOMAIN k.queues |-> Len(k.queues[a])],
                     activeAgents |-> Cardinality({i \in DOMAIN k.agents :
                                                     k.agents[i].state # "exited"})]
                runs == {getMetrics(tick(dt, draws, moves)) :
                            draws \in [1..toSpawnNow(afterTrigger) -> SpawnDraws],
                            moves \in [1..Len(agents) + toSpawnNow(afterTrigger) -> MoveKinds]}
            IN  Cardinality(runs) <= 1

\* ------------------------------------------------------------ the sweep driver
\* runSweep as a process: build the list of N, then for each N a fresh kernel,
\* its ticks, and the result.  The kernel variables are the sweep's kernel.
\* Durations are in ticks; the driver's own windows (10 min, 2 min, 60 s) are
\* counted in minutes of SweepMinute ticks.
SweepMinute == 2        \* ticks in a minute of the driver's windows (1200 in the code)
MaxValues == 3          \* the longest list of N the driver is followed through

\* percentile(sorted, p) of the sorted copy of times
percentile(times, p) ==
    IF Len(times) = 0 THEN 0
    ELSE LET idx == Max(0, CeilDiv(p * Len(times), 100) - 1)
         IN  CHOOSE v \in Range(times) :
                /\ Cardinality({i \in DOMAIN times : times[i] < v}) <= idx
                /\ idx < Cardinality({i \in DOMAIN times : times[i] <= v})

\* a verdict on the peak density alone
sweepPassedOnDensity(base) == peakDensity <= base.densityDanger

\* passed, from the metrics of the kernel as it stands
sweepPassed(base) ==
    /\ peakDensity <= base.densityDanger
    /\ percentile(egressTimes, 95) <= base.egresTimeLimitMin * SweepMinute
    /\ IF simTime > 0 THEN timeAboveWarning * 100 <= base.warningTimeLimitPct * simTime
       ELSE 0 <= base.warningTimeLimitPct

\* venues: complete, without an entrance, without an exit
SweepLayouts ==
    {VENUE_A, [VENUE_A EXCEPT !.entrances = << >>], [VENUE_A EXCEPT !.exits = << >>]}

\* base configs: N = 1, 2 swept in steps of 1, and a step field left at 0
SweepConfigs ==
    {c @@ [sweepMinN |-> 1, sweepMaxN |-> 2, sweepStep |-> step,
           egresTimeLimitMin |-> 2, warningTimeLimitPct |-> 5] :
        c \in {CFG_QUEUE, CFG_EVAC}, step \in {0, 1}}

SweepInit == InitFor(SweepLayouts, SweepConfigs)

simDuration == cfg.arrivalDuration + 10 * SweepMinute

SweepKeepsKernel ==
    UNCHANGED << layout, cfg, agents, simTime, isRunning, isEvacuating, passable, hash,
                 metricVars, egressTimes, queues, queueServiced, fireGrid, fireSpread,
                 smokeVars, fireCellCount, fireStartTime, blockedExits, spawnedCount,
                 totalToSpawn, nextId, calls, held, ffVars >>

\* SafetyEstimator.runEstimator: refuses a venue without entrance or exit
RunEstimator ==
    /\ sweep.pc = "idle"
    /\ sweep' = IF Len(layout.entrances) = 0 \/ Len(layout.exits) = 0
                THEN [sweep EXCEPT !.pc = "refused", !.by = "estimator"]
                ELSE [sweep EXCEPT !.pc = "values", !.by = "estimator", !.n = cfg.sweepMinN]
    /\ lastOp' = [op |-> "other"]
    /\ SweepKeepsKernel

\* ScenarioManager.runAllSweeps on a scenario not analysed yet
AnalyseAll ==
    /\ sweep.pc = "idle"
    /\ sweep' = [sweep EXCEPT !.pc = "values", !.by = "analyseAll", !.n = cfg.sweepMinN]
    /\ lastOp' = [op |-> "other"]
    /\ SweepKeepsKernel

\* one round of the loop that fills values; a list that outgrows MaxValues is
\* followed no further (the host runs out of memory)
SweepValues ==
    /\ sweep.pc = "values"
    /\ sweep' = IF sweep.n > cfg.sweepMaxN THEN [sweep EXCEPT !.pc = "next", !.vi = 1]
                ELSE IF Len(sweep.values) >= MaxValues THEN [sweep EXCEPT !.pc = "exhausted"]
                ELSE [sweep EXCEPT !.values = Append(@, sweep.n), !.n = @ + cfg.sweepStep]
    /\ lastOp' = [op |-> "other"]
    /\ SweepKeepsKernel

\* the head of the loop over values: return, or new SimEngine, reset(), start()
SweepBegin ==
    /\ sweep.pc = "next"
    /\ lastOp' = [op |-> "other"]
    /\ IF sweep.vi > Len(sweep.values)
       THEN /\ sweep' = [sweep EXCEPT !.pc = "done"]
            /\ SweepKeepsKernel
       ELSE /\ sweep' = [sweep EXCEPT !.pc = "run", !.t = 0]
            /\ cfg' = [cfg EXCEPT !.N = sweep.values[sweep.vi],
                                  !.evacuationEnabled = TRUE,
                                  !.evacuationTime = cfg.arrivalDuration + 2 * SweepMinute]
            /\ agents' = << >>
            /\ simTime' = 0
            /\ isRunning' = TRUE
            /\ isEvacuating' = FALSE
            /\ hash' = {}
            /\ peakDensity' = 0
            /\ timeAboveWarning' = 0
            /\ timeAboveDanger' = 0
            /\ egressTimes' = << >>
            /\ queues' = rebuildQueues(layout).queues
            /\ queueServiced' = rebuildQueues(layout).queueServiced
            /\ fireGrid' = {}
            /\ fireSpread' = [rc \in DOMAIN fireSpread |-> 0]
            /\ smokeGrid' = [rc \in DOMAIN smokeGrid |-> 0]
            /\ fireCellCount' = 0
            /\ hasSmoke' = FALSE
            /\ firefighters' = << >>
            /\ firefightersSpawned' = FALSE
            /\ fireStartTime' = -1
            /\ ffNextId' = 0
            /\ blockedExits' = {}
            /\ spawnedCount' = 0
            /\ totalToSpawn' = cfg'.N
            /\ nextId' = 0
            /\ UNCHANGED << layout, passable, calls, held >>

\* one round of the tick loop: engine.tick(DT), then the early exit
SweepTick ==
    /\ sweep.pc = "run"
    /\ sweep.t < simDuration
    /\ RunTick(DT_CLAMP, simTime + DT_CLAMP)
    /\ sweep' = IF /\ sweep.t > cfg.evacuationTime + SweepMinute
                   /\ \A i \in DOMAIN agents' : agents'[i].state = "exited"
                THEN [sweep EXCEPT !.pc = "measure"]
                ELSE [sweep EXCEPT !.t = @ + DT_CLAMP]
    /\ lastOp' = [op |-> "tick", dt |-> DT_CLAMP, ran |-> TRUE]
    /\ UNCHANGED held

\* after the tick loop: the result of this N and the progress report
SweepMeasure ==
    /\ sweep.pc = "measure" \/ (sweep.pc = "run" /\ sweep.t >= simDuration)
    /\ sweep' = [sweep EXCEPT
                    !.pc = "next",
                    !.results = Append(@, [N |-> cfg.N,
                                           peakDensity |-> peakDensity,
                                           p95EgressTime |-> percentile(egressTimes, 95),
                                           timeAboveWarning |-> timeAboveWarning,
                                           simTime |-> simTime,
                                           passed |-> sweepPassed(cfg)]),
                    !.progress = Append(@, << sweep.vi, Len(sweep.values) >>),
                    !.vi = @ + 1]
    /\ lastOp' = [op |-> "other"]
    /\ SweepKeepsKernel

SweepNext ==
    \/ RunEstimator
    \/ AnalyseAll
    \/ SweepValues
    \/ SweepBegin
    \/ SweepTick
    \/ SweepMeasure

SweepSpec == SweepInit /\ [][SweepNext]_vars

\* C24: the passed flag of each swept N is true exactly when the peak density
\* is at most densityDanger, the p95 egress time in minutes is at most the
\* egress limit and the percentage of simulated time above the warning density
\* is at most the warning-time limit, all three read from the kernel that ran
\* this N, which started from zeroed metrics with this N as its config's N.
C24_PassedFlag ==
    [][ /\ (sweep.pc # "run" /\ sweep'.pc = "run") =>
              /\ cfg'.N = sweep.values[sweep.vi]
              /\ simTime' = 0 /\ peakDensity' = 0 /\ timeAboveWarning' = 0
              /\ egressTimes' = << >> /\ agents' = << >>
        /\ sweep.pc = "run" => cfg' = cfg
        /\ Len(sweep'.results) > Len(sweep.results) =>
              LET result == sweep'.results[Len(sweep'.results)]
                  p95 == percentile(egressTimes, 95)
              IN  /\ Len(sweep'.results) = Len(sweep.results) + 1
                  /\ result.N = cfg.N
                  /\ result.N = sweep.values[sweep.vi]
                  /\ result.passed <=>
                        /\ peakDensity <= cfg.densityDanger
                        /\ p95 <= cfg.egresTimeLimitMin * SweepMinute
                        /\ timeAboveWarning * 100 <= cfg.warningTimeLimitPct * simTime ]_vars

\* a finished sweep with an N that passes and an N that fails although its
\* peak density is within the danger threshold
C24_Witness ==
    /\ sweep.pc = "done"
    /\ \E i \in DOMAIN sweep.results : sweep.results[i].passed
    /\ \E i \in DOMAIN sweep.results :
          /\ ~ sweep.results[i].passed
          /\ sweep.results[i].peakDensity <= cfg.densityDanger

\* runSweep is one synchronous call: once invoked, every round of its loops
\* that can run does run.  For the tick loop the weak fairness is written out,
\* with the loop's own condition in the place of ENABLED.
SweepLiveSpec ==
    /\ SweepSpec
    /\ WF_vars(SweepValues)
    /\ WF_vars(SweepBegin)
    /\ WF_vars(SweepMeasure)
    /\ \/ []<>(sweep.pc # "run" \/ sweep.t >= simDuration)
       \/ []<><< SweepTick >>_vars

\* C25: runSweep terminates and returns exactly one result for each
\* N = sweepMinN + k * sweepStep that is <= sweepMaxN, in increasing order of N;
\* each N's kernel is ticked at most (arrivalDuration + 10 min) / DT times and
\* is stopped early only once the loop time exceeds the evacuation time + 60 s
\* with no active agent; onProgress(k, total) is called once after the k-th N.
C25_SweepTerminates ==
    /\ [](sweep.pc = "done" =>
            LET total == Cardinality({n \in cfg.sweepMinN..cfg.sweepMaxN :
                                        (n - cfg.sweepMinN) % cfg.sweepStep = 0})
            IN  /\ Len(sweep.results) = total
                /\ \A k \in 1..total :
                      sweep.results[k].N = cfg.sweepMinN + (k - 1) * cfg.sweepStep
                /\ sweep.progress = [k \in 1..total |-> << k, total >>])
    /\ [](sweep.pc \in {"run", "measure"} => simTime <= simDuration)
    /\ [][(sweep.pc = "run" /\ sweep'.pc = "measure") =>
            /\ sweep.t > cfg.evacuationTime + SweepMinute
            /\ \A i \in DOMAIN agents' : agents'[i].state = "exited"]_vars
    /\ (sweep.pc = "values") ~> (sweep.pc = "done")

\* C26: on a venue with no entrance or no exit the sweep fails hard: whichever
\* path invokes the driver (the safety estimator, the scenario manager's
\* analyse-all), no result is produced with passed = true and the driver does
\* not return a list of results.
C26_NoSweepWithoutDoors ==
    (Len(layout.entrances) = 0 \/ Len(layout.exits) = 0) =>
        /\ \A i \in DOMAIN sweep.results : ~ sweep.results[i].passed
        /\ sweep.pc # "done"

GetFrame ==
    /\ Budget
    /\ held' = << [frame |-> getFrame, aliased |-> TRUE, fireGrid |-> fireGrid] >>
    /\ lastOp' = [op |-> "getFrame"]
    /\ UNCHANGED << layout, cfg, agents, simTime, isRunning, isEvacuating, passable, hash,
                    metricVars, egressTimes, queues, queueServiced, fireGrid, fireSpread,
                    smokeVars, fireCellCount, fireStartTime, blockedExits, spawnedCount,
                    totalToSpawn, nextId, sweep, ffVars >>

FrameNext == ClockNext \/ GetFrame

FrameSpec == ClockInit /\ [][FrameNext]_vars

\* C28: a frame returned by getFrame() is never changed by a later kernel
\* operation: read at any later time, its agent list, density grid, fire grid,
\* smoke grid and blocked-exit list are what they were when it was taken.
C28_FrameKeepsItsValues ==
    held # << >> =>
        LET asRead == [held[1].frame EXCEPT
                          !.fireGrid = IF held[1].aliased THEN fireGrid
                                       ELSE held[1].fireGrid]
        IN  asRead = held[1].frame

\* C29: within one kernel no two agents ever have the same id, also when other
\* kernels of the module are reset and ticked between this kernel's ticks, so
\* that the agent-by-id map resolves an id to the one agent holding it.
C29_UniqueIds ==
    \A i, j \in DOMAIN agents : agents[i].id = agents[j].id => i = j

\* C30: an agent's state changes along the listed transitions only:
\* seeking_attractor -> queuing, at_attractor or evacuating; queuing ->
\* at_attractor or evacuating; at_attractor -> seeking_exit or evacuating;
\* seeking_exit -> evacuating or exited; evacuating -> exited; exited is
\* terminal.  A kernel call may take an agent through several of them (a tick
\* triggers the evacuation and then moves the agent), so the states before and
\* after a call are related by a chain of listed transitions; in particular an
\* evacuating agent is afterwards evacuating or exited.
C30_ListedTransitions ==
    [][ LET listed == {<< "seeking_attractor", "queuing" >>,
                       << "seeking_attractor", "at_attractor" >>,
                       << "seeking_attractor", "evacuating" >>,
                       << "queuing", "at_attractor" >>, << "queuing", "evacuating" >>,
                       << "at_attractor", "seeking_exit" >>,
                       << "at_attractor", "evacuating" >>,
                       << "seeking_exit", "evacuating" >>, << "seeking_exit", "exited" >>,
                       << "evacuating", "exited" >>}
            states == {"seeking_attractor", "queuing", "at_attractor", "seeking_exit",
                       "evacuating", "exited"}
            chains == {p \in states \X states :
                         \/ p[1] = p[2]
                         \/ p \in listed
                         \/ \E b \in states : << p[1], b >> \in listed /\
                               (<< b, p[2] >> \in listed \/
                                \E c \in states : << b, c >> \in listed /\
                                   (<< c, p[2] >> \in listed \/
                                    \E d \in states : << c, d >> \in listed
                                                       /\ << d, p[2] >> \in listed))}
        IN  \A i \in DOMAIN agents :
               (i \in DOMAIN agents' /\ agents'[i].id = agents[i].id)
                  => << agents[i].state, agents'[i].state >> \in chains ]_vars

\* ------------------------------------------------------ runs with a queue
\* Three visitors arriving one per tick at a venue whose stall by the entrance
\* serves each of them for three ticks, so that a queue builds up behind the
\* visitor being served; in one config the evacuation timer fires as the
\* second visitor arrives, in the other there is no timer.  The host starts, pauses and resets the run, starts a
\* fire, and sends the layout again (update_layout with the layout in use).
QueueInit ==
    InitFor({[VENUE_A EXCEPT !.attractors[1].serviceTime = 3,
                             !.attractors[1].queueCapacity = 3]},
            {[CFG_QUEUE EXCEPT !.N = 3, !.arrivalMode = "linear", !.arrivalDuration = 3],
             [CFG_QUEUE EXCEPT !.N = 3, !.arrivalMode = "linear", !.arrivalDuration = 3,
                               !.evacuationEnabled = TRUE, !.evacuationTime = 2]})

QueueNext ==
    \/ Start
    \/ Pause
    \/ Reset
    \/ UpdateLayout(layout)
    \/ \E w \in FirePoints : StartFire(w)
    \/ \E dt \in DtInputs : LoggedTick(dt)

QueueSpec == QueueInit /\ [][QueueNext]_vars

\* C31: at a queueing attractor the agents are served in the order in which
\* they joined its queue: whenever a step moves an agent to at_attractor, no
\* agent that joined the same attractor's queue before it (it was queuing there
\* when the other was not yet, or stood ahead of it in the queue) is still
\* queuing after the step.
C31_ServedInJoinOrder ==
    [][ \A i \in DOMAIN agents' :
          LET X == agents'[i].targetAttractorId
              q == QueueOf(Self, X)
              wasQueuing == i \in DOMAIN agents /\ agents[i].state = "queuing"
              served == /\ agents'[i].state = "at_attractor"
                        /\ i \in DOMAIN agents => agents[i].state # "at_attractor"
                        /\ cfg.queueEnabled
                        /\ \E a \in FindAttractor(X) : layout.attractors[a].queueEnabled
          IN  served =>
                \A j \in DOMAIN agents \ {i} :
                    (/\ agents[j].state = "queuing"
                     /\ agents[j].targetAttractorId = X
                     /\ \/ ~ wasQueuing
                        \/ IndexOf(q, agents[j].id) < IndexOf(q, agents[i].id))
                      => (j \in DOMAIN agents' /\ agents'[j].state # "queuing") ]_vars

\* C32: with queueing enabled, at the end of every running tick each queueing
\* attractor has at most one agent in state at_attractor, its queue is
\* non-empty only if an agent is being served there, and an agent the tick has
\* moved from the queue to at_attractor is served until now + serviceTime.
C32_OneServedPerAttractor ==
    [][ (lastOp'.op = "tick" /\ isRunning /\ cfg.queueEnabled) =>
          \A a \in DOMAIN layout.attractors :
            LET att == layout.attractors[a]
                atIt == {i \in DOMAIN agents' : /\ agents'[i].state = "at_attractor"
                                                /\ agents'[i].targetAttractorId = att.id}
            IN  att.queueEnabled =>
                  /\ Cardinality(atIt) <= 1
                  /\ (att.id \in DOMAIN queues' /\ queues'[att.id] # << >>) => atIt # {}
                  /\ \A i \in atIt :
                        (i \notin DOMAIN agents \/ agents[i].state # "at_attractor")
                            => agents'[i].atAttractorUntil = simTime + att.serviceTime ]_vars

\* C33: with the evacuation timer enabled, the flag is set by the first running
\* tick that starts at or after the evacuation time and by no earlier tick, and
\* it is set before the tick's other phases: an agent present at the start of
\* that tick has its speed multiplied and ends the tick bound for no attractor,
\* an agent the tick spawns is created with no attractor and at its own speed,
\* and the queues are left empty.  With the timer disabled and no fire ever
\* started the flag is false.
C33_TimerEvacuation ==
    [][ LET ranTick == lastOp'.op = "tick" /\ isRunning
            due == cfg.evacuationEnabled /\ simTime >= cfg.evacuationTime
        IN  /\ (ranTick /\ due) => isEvacuating'
            /\ (ranTick /\ ~ due /\ ~ isEvacuating) => ~ isEvacuating'
            /\ (ranTick /\ due /\ ~ isEvacuating) =>
                  /\ \A i \in DOMAIN agents' :
                        /\ agents'[i].targetAttractorId = NULL
                        /\ agents'[i].state \in ExitStates \cup {"exited"}
                        /\ agents'[i].speed =
                              IF i \in DOMAIN agents
                              THEN IF agents[i].state = "exited" THEN agents[i].speed
                                   ELSE agents[i].speed * cfg.panicSpeedMultiplier
                              ELSE cfg.speedMean
                  /\ \A id \in DOMAIN queues' : queues'[id] = << >>
            /\ (~ cfg.evacuationEnabled /\ fireStartTime' < 0) => ~ isEvacuating' ]_vars

\* the timer has just fired in a tick that found one agent in the venue and
\* spawned another
C33_Witness ==
    /\ lastOp = [op |-> "tick", dt |-> 1, ran |-> TRUE]
    /\ cfg.evacuationEnabled /\ simTime = cfg.evacuationTime + 1
    /\ isEvacuating /\ fireStartTime < 0
    /\ \E i, j \in DOMAIN agents :
          /\ agents[i].spawnTime < cfg.evacuationTime /\ agents[i].state = "evacuating"
          /\ agents[j].spawnTime = cfg.evacuationTime /\ agents[j].state = "seeking_exit"

\* C34: a running tick in which the largest cell density after the agent
\* updates is at least the warning threshold adds the clamped dt to
\* timeAboveWarning, and one in which it is at least the danger threshold adds
\* it to timeAboveDanger, a density equal to the threshold included.
C34_AtThresholdCounts ==
    [][ (lastOp'.op = "tick" /\ isRunning) =>
          LET maxDensity == maxOfGrid(computeDensityGrid(agents'))
              dt == Min(lastOp'.dt, DT_CLAMP)
          IN  /\ maxDensity >= cfg.densityWarning =>
                    timeAboveWarning' = timeAboveWarning + dt
              /\ maxDensity >= cfg.densityDanger =>
                    timeAboveDanger' = timeAboveDanger + dt ]_vars

\* C37: when the goal cell is not passable and the 7x7 window around it holds a
\* passable cell, the cell astar plans to is a passable cell of the window at
\* the least squared cell distance from the goal cell.
C37_RepairToNearest ==
    lastOp.op = "astar" =>
        LET rows == GridRows(passable)
            cols == GridCols(passable)
            gr == Max(0, Min(rows - 1, lastOp.goal.y \div SCALE))
            gc == Max(0, Min(cols - 1, lastOp.goal.x \div SCALE))
            sr == Max(0, Min(rows - 1, lastOp.start.y \div SCALE))
            sc == Max(0, Min(cols - 1, lastOp.start.x \div SCALE))
            window == {d \in (-3..3) \X (-3..3) : IsPassable(passable, gr + d[1], gc + d[2])}
            planned == repairGoal(passable, gr, gc)
        IN  (IsPassable(passable, sr, sc) /\ ~ IsPassable(passable, gr, gc) /\ window # {}) =>
                /\ IsPassable(passable, planned[1], planned[2])
                /\ \A d \in window :
                      (planned[1] - gr) * (planned[1] - gr) + (planned[2] - gc) * (planned[2] - gc)
                          <= d[1] * d[1] + d[2] * d[2]

\* C38: astar returns a path that is not empty and ends at the exact goal
\* point; it is the single waypoint [goal] when the start cell is not passable,
\* when the start cell is the (repaired) goal cell, and when no chain of
\* passable cells, each next to the one before (diagonals included), leads
\* from the start cell to the goal cell.
C38_PathEndsAtGoal ==
    lastOp.op = "astar" =>
        LET rows == GridRows(passable)
            cols == GridCols(passable)
            sr == Max(0, Min(rows - 1, lastOp.start.y \div SCALE))
            sc == Max(0, Min(cols - 1, lastOp.start.x \div SCALE))
            goalCell == repairGoal(passable, Max(0, Min(rows - 1, lastOp.goal.y \div SCALE)),
                                             Max(0, Min(cols - 1, lastOp.goal.x \div SCALE)))
            next(S) == S \cup {rc \in (0..(rows - 1)) \X (0..(cols - 1)) :
                                 /\ passable[rc[1]][rc[2]]
                                 /\ \E s \in S : Abs(s[1] - rc[1]) <= 1 /\ Abs(s[2] - rc[2]) <= 1}
            RECURSIVE chained(_)
            chained(S) == IF next(S) = S THEN S ELSE chained(next(S))
        IN  /\ Len(lastOp.path) >= 1
            /\ lastOp.path[Len(lastOp.path)] = lastOp.goal
            /\ (\/ ~ IsPassable(passable, sr, sc)
                \/ << sr, sc >> = goalCell
                \/ goalCell \notin chained({<< sr, sc >>})) => lastOp.path = << lastOp.goal >>

\* a passable goal cell walled off from a passable start cell in another row:
\* the planner gives up and returns the goal alone
C38_Witness ==
    /\ lastOp.op = "astar"
    /\ IsPassable(passable, lastOp.start.y \div SCALE, lastOp.start.x \div SCALE)
    /\ IsPassable(passable, lastOp.goal.y \div SCALE, lastOp.goal.x \div SCALE)
    /\ lastOp.start.y \div SCALE # lastOp.goal.y \div SCALE
    /\ lastOp.path = << lastOp.goal >>

\* C40: the evacuation flag, once true, stays true until reset(); a step that
\* changes the speed of an agent is the one step that sets the flag, and it
\* multiplies the speed by panicSpeedMultiplier, so that no agent's speed is
\* multiplied twice: not by a start_fire during a timer evacuation, nor by the
\* timer during a fire evacuation.
C40_EvacuatedOnce ==
    [][ lastOp'.op # "reset" =>
          /\ isEvacuating => isEvacuating'
          /\ \A i \in DOMAIN agents :
                /\ i \in DOMAIN agents'
                /\ agents'[i].speed # agents[i].speed =>
                      /\ ~ isEvacuating /\ isEvacuating'
                      /\ agents'[i].speed = agents[i].speed * cfg.panicSpeedMultiplier
          /\ \A i \in DOMAIN agents' :
                agents'[i].speed \in {cfg.speedMean, cfg.speedMean * cfg.panicSpeedMultiplier} ]_vars

\* start_fire has lit a cell after the timer had triggered the evacuation, with
\* an agent still on its way out at the panic speed
C40_Witness ==
    /\ lastOp.op = "startFire"
    /\ fireStartTime > cfg.evacuationTime /\ fireCellCount > 0
    /\ cfg.evacuationEnabled /\ isEvacuating
    /\ \E i \in DOMAIN agents :
          /\ agents[i].state # "exited"
          /\ agents[i].speed = cfg.speedMean * cfg.panicSpeedMultiplier

\* ------------------------------------------- runs that see the crew arrive
\* The venue is empty (N = 0) and has its entrance or none.  The clock is read
\* by tickFirefighters only to find the arrival time, so clock readings from
\* CrewHorizon on are identified; a fire is first started early enough for the
\* arrival to fall within the horizon.  The host makes its other calls every
\* CrewCallEvery ticks, and at any moment once the horizon is reached.
CrewHorizon == 700
CrewCallEvery == 100

CrewTick ==
    /\ isRunning
    /\ lastOp' = [op |-> "other"]
    /\ UNCHANGED << sweep, held >>
    /\ RunTick(DT_CLAMP, Min(simTime + DT_CLAMP, CrewHorizon))

CrewNext ==
    \/ Start
    \/ CrewTick
    \/ /\ simTime % CrewCallEvery = 0 \/ simTime >= CrewHorizon
       /\ \/ /\ fireStartTime >= 0 \/ simTime + FF_RESPONSE_DELAY < CrewHorizon
             /\ StartFire(Vec(1, 5))
          \/ Reset
          \/ UpdateLayout(layout)

\* no tick can change the state any more: ~ ENABLED <<CrewTick>>_vars written out
CrewIdle ==
    \/ ~ isRunning
    \/ /\ simTime >= CrewHorizon
       /\ lastOp = [op |-> "other"]
       /\ toSpawnNow(afterTrigger) = 0
       /\ tick(DT_CLAMP, << >>, [i \in 1..Len(afterTrigger.agents) |-> "toward"]) = Self
       /\ hashInsert(afterTrigger.agents) = hash
       /\ densityMetrics(agents, DT_CLAMP, CrewHorizon)
            = [peak |-> peakDensity, warning |-> timeAboveWarning, danger |-> timeAboveDanger]
       /\ LET fire == IF fireCellCount > 0 THEN spreadFire(DT_CLAMP)
                      ELSE [grid |-> fireGrid, spread |-> fireSpread, count |-> fireCellCount]
              smoke == IF fireCellCount > 0 \/ hasSmoke THEN spreadSmoke(fire.grid, DT_CLAMP)
                       ELSE [grid |-> smokeGrid, has |-> hasSmoke]
              now == [grid |-> fireGrid, spread |-> fireSpread, count |-> fireCellCount,
                      ffs |-> firefighters, spawned |-> firefightersSpawned,
                      nextId |-> ffNextId]
          IN  /\ fire = [grid |-> fireGrid, spread |-> fireSpread, count |-> fireCellCount]
              /\ smoke = [grid |-> smokeGrid, has |-> hasSmoke]
              /\ tickFirefighters(now, DT_CLAMP, [i \in 1..FF_COUNT |-> 0]) = now

\* start() is followed by the frame loop, which never stops calling tick
CrewSpec ==
    /\ InitFor({VENUE_A, [VENUE_A EXCEPT !.entrances = << >>]}, {CFG_EMPTY})
    /\ [][CrewNext]_vars
    /\ WF_vars(Start)
    /\ ([]<>CrewIdle \/ []<><<CrewTick>>_vars)

\* C35: once the last burning cell has been put out while smoke is still in
\* the air, continued ticking brings every cell's intensity down to 0.01 or
\* less and keeps it there, so that hasSmoke becomes false.
C35_SmokeDecays ==
    (fireCellCount = 0 /\ hasSmoke)
        ~> [](fireCellCount = 0 => ~ hasSmoke /\ \A rc \in Cells : smokeGrid[rc] <= SMOKE_VISIBLE)

\* C36: there is no firefighter before the crew is created; it is created by
\* the first running tick that finds simTime - fireStartTime >= 30 s, and by
\* no other step; from then on there are exactly FF_COUNT firefighters with
\* distinct ids, and the set stays as it is until reset(), whatever the fire
\* does.
C36_ThreeFirefightersOnce ==
    [][/\ ~ firefightersSpawned => firefighters = << >>
       /\ firefightersSpawned'
            => /\ Len(firefighters') = FF_COUNT
               /\ \A i, j \in 1..Len(firefighters') :
                    firefighters'[i].id = firefighters'[j].id => i = j
       /\ firefightersSpawned' /\ ~ firefightersSpawned
            => /\ isRunning /\ simTime' # simTime
               /\ fireStartTime >= 0
               /\ simTime - fireStartTime >= FF_RESPONSE_DELAY
       /\ ~ firefightersSpawned' /\ fireStartTime' >= 0
            => simTime' - fireStartTime' <= FF_RESPONSE_DELAY
       /\ firefightersSpawned /\ lastOp'.op # "reset"
            => /\ firefightersSpawned'
               /\ [i \in 1..Len(firefighters') |-> firefighters'[i].id]
                    = [i \in 1..Len(firefighters) |-> firefighters[i].id]
      ]_vars

\* C39: fireCellCount is the number of burning cells of fireGrid in every
\* reachable state, so it is 0 exactly when nothing burns.
C39_CountMatchesGrid ==
    /\ fireCellCount = Cardinality(fireGrid)
    /\ fireCellCount = 0 <=> fireGrid = {}

\* the water of several firefighters with one target has just fallen, and a
\* cell out of its reach still burns
C39_Witness ==
    /\ lastOp = [op |-> "other"]
    /\ fireGrid # {}
    /\ \E i, j \in 1..Len(firefighters) :
        /\ i # j
        /\ firefighters[i].targetCell = << >> /\ firefighters[i].extinguishTimer = 0
        /\ firefighters[j].targetCell = << >> /\ firefighters[j].extinguishTimer = 0
        /\ firefighters[i].x = firefighters[j].x /\ firefighters[i].y = firefighters[j].y

====
